---- MODULE Spec2Model ----
(***************************************************************************)
(* Model of MedicalDiagnosisChatbot (src/medical_chatbot.py): the data     *)
(* loader, the classifier training step, the symptom matcher and the       *)
(* diagnosis step, as a state machine over the object's fields.            *)
(*                                                                         *)
(* A Python str is a sequence of one-character strings, so that lower(),   *)
(* strip(), split() and the substring test `a in b` are computed.          *)
(***************************************************************************)
EXTENDS Integers, Sequences, FiniteSets, TLC

(* ---------------------------------------------------------------- bounds *)

\* Longest token list handed to diagnose / validate_symptoms.
MaxTokens == 2

\* Number of trees in the modelled forest (the code fits n_estimators=100).
NTrees == 5

(* --------------------------------------------------------- str primitives *)

UpperChars == <<"A", "B", "C", "D", "E", "F", "G", "H", "I", "J", "K", "L", "M",
                "N", "O", "P", "Q", "R", "S", "T", "U", "V", "W", "X", "Y", "Z">>

LowerChars == <<"a", "b", "c", "d", "e", "f", "g", "h", "i", "j", "k", "l", "m",
                "n", "o", "p", "q", "r", "s", "t", "u", "v", "w", "x", "y", "z">>

\* The characters str.strip() and str.split() treat as whitespace.
Whitespace == {" ", "\t"}

\* The lower-case form of each upper-case character.
LowerTable ==
    [c \in {UpperChars[i] : i \in 1..Len(UpperChars)} |->
        LowerChars[CHOOSE i \in 1..Len(UpperChars) : UpperChars[i] = c]]

LowerChar(c) == IF c \in DOMAIN LowerTable THEN LowerTable[c] ELSE c

\* str.lower()
Lower(s) == [i \in 1..Len(s) |-> LowerChar(s[i])]

RECURSIVE LStrip(_)
LStrip(s) == IF s # <<>> /\ Head(s) \in Whitespace THEN LStrip(Tail(s)) ELSE s

RECURSIVE RStrip(_)
RStrip(s) ==
    IF s # <<>> /\ s[Len(s)] \in Whitespace
    THEN RStrip(SubSeq(s, 1, Len(s) - 1))
    ELSE s

\* str.strip()
Strip(s) == RStrip(LStrip(s))

\* Variant of IsSubstr: the empty str is a slice of no str.
IsSubstr_NonEmpty(a, b) ==
    /\ a # <<>>
    /\ \E i \in 0..(Len(b) - Len(a)) : SubSeq(b, i + 1, i + Len(a)) = a

\* Python's `a in b` on two strs: a is a contiguous slice of b.
IsSubstr(a, b) ==
    \E i \in 0..(Len(b) - Len(a)) : SubSeq(b, i + 1, i + Len(a)) = a

\* Python's `x in lst` on a list.
InList(x, lst) == \E i \in 1..Len(lst) : lst[i] = x

\* set(s.split()): the maximal runs of non-whitespace characters of s.
RECURSIVE SplitWords(_, _)
SplitWords(s, cur) ==
    IF s = <<>>
    THEN (IF cur = <<>> THEN {} ELSE {cur})
    ELSE IF Head(s) \in Whitespace
         THEN (IF cur = <<>> THEN {} ELSE {cur}) \cup SplitWords(Tail(s), <<>>)
         ELSE SplitWords(Tail(s), Append(cur, Head(s)))

(* ------------------------------------------------------ string literals *)

s_fever == <<"f", "e", "v", "e", "r">>
s_high_fever == <<"h", "i", "g", "h", "_", "f", "e", "v", "e", "r">>
s_mild_fever == <<"m", "i", "l", "d", "_", "f", "e", "v", "e", "r">>
s_cold == <<"c", "o", "l", "d">>
s_cold_hands_and_feets == <<"c", "o", "l", "d", "_", "h", "a", "n", "d", "s", "_", "a", "n", "d", "_", "f", "e", "e", "t", "s">>
s_sweating == <<"s", "w", "e", "a", "t", "i", "n", "g">>
s_trembling == <<"t", "r", "e", "m", "b", "l", "i", "n", "g">>
s_headache == <<"h", "e", "a", "d", "a", "c", "h", "e">>
s_nausea == <<"n", "a", "u", "s", "e", "a">>
s_vomiting == <<"v", "o", "m", "i", "t", "i", "n", "g">>
s_diarrhea == <<"d", "i", "a", "r", "r", "h", "e", "a">>
s_diarrhoea == <<"d", "i", "a", "r", "r", "h", "o", "e", "a">>
s_constipation == <<"c", "o", "n", "s", "t", "i", "p", "a", "t", "i", "o", "n">>
s_cough == <<"c", "o", "u", "g", "h">>
s_sneezing == <<"s", "n", "e", "e", "z", "i", "n", "g">>
s_continuous_sneezing == <<"c", "o", "n", "t", "i", "n", "u", "o", "u", "s", "_", "s", "n", "e", "e", "z", "i", "n", "g">>
s_rash == <<"r", "a", "s", "h">>
s_skin_rash == <<"s", "k", "i", "n", "_", "r", "a", "s", "h">>
s_fatigue == <<"f", "a", "t", "i", "g", "u", "e">>
s_weakness == <<"w", "e", "a", "k", "n", "e", "s", "s">>
s_muscle_weakness == <<"m", "u", "s", "c", "l", "e", "_", "w", "e", "a", "k", "n", "e", "s", "s">>
s_weakness_in_limbs == <<"w", "e", "a", "k", "n", "e", "s", "s", "_", "i", "n", "_", "l", "i", "m", "b", "s">>
s_pain == <<"p", "a", "i", "n">>
s_joint_pain == <<"j", "o", "i", "n", "t", "_", "p", "a", "i", "n">>
s_stomach_pain == <<"s", "t", "o", "m", "a", "c", "h", "_", "p", "a", "i", "n">>
s_back_pain == <<"b", "a", "c", "k", "_", "p", "a", "i", "n">>
s_chest_pain == <<"c", "h", "e", "s", "t", "_", "p", "a", "i", "n">>
s_breathing == <<"b", "r", "e", "a", "t", "h", "i", "n", "g">>
s_breathlessness == <<"b", "r", "e", "a", "t", "h", "l", "e", "s", "s", "n", "e", "s", "s">>
s_dizziness == <<"d", "i", "z", "z", "i", "n", "e", "s", "s">>
s_anxiety == <<"a", "n", "x", "i", "e", "t", "y">>
s_depression == <<"d", "e", "p", "r", "e", "s", "s", "i", "o", "n">>

s_nan == <<"n", "a", "n">>
s_empty == <<>>

(* --------------------------------------------------------- symptom matcher *)

\* The alias table of validate_symptoms: token -> aliases in list order.
symptom_mappings ==
    (s_fever :> <<s_high_fever, s_mild_fever>>) @@
    (s_cold :> <<s_cold_hands_and_feets>>) @@
    (s_sweating :> <<s_sweating>>) @@
    (s_trembling :> <<s_trembling>>) @@
    (s_headache :> <<s_headache>>) @@
    (s_nausea :> <<s_nausea>>) @@
    (s_vomiting :> <<s_vomiting>>) @@
    (s_diarrhea :> <<s_diarrhoea>>) @@
    (s_diarrhoea :> <<s_diarrhoea>>) @@
    (s_constipation :> <<s_constipation>>) @@
    (s_cough :> <<s_cough>>) @@
    (s_sneezing :> <<s_continuous_sneezing>>) @@
    (s_rash :> <<s_skin_rash>>) @@
    (s_fatigue :> <<s_fatigue>>) @@
    (s_weakness :> <<s_muscle_weakness, s_weakness_in_limbs>>) @@
    (s_pain :> <<s_joint_pain, s_stomach_pain, s_back_pain, s_chest_pain>>) @@
    (s_breathing :> <<s_breathlessness>>) @@
    (s_dizziness :> <<s_dizziness>>) @@
    (s_anxiety :> <<s_anxiety>>) @@
    (s_depression :> <<s_depression>>)

\* _similarity(a, b) as the fraction <<numerator, denominator>>; 0.0 is <<0, 1>>.
similarity(a, b) ==
    LET a_words == SplitWords(a, <<>>)
        b_words == SplitWords(b, <<>>)
    IN  IF a_words = {} \/ b_words = {}
        THEN <<0, 1>>
        ELSE <<Cardinality(a_words \cap b_words), Cardinality(a_words \cup b_words)>>

\* The threshold test `_similarity(a, b) > 0.6`, in integers: n/d > 6/10.
SimilarityThreshold == 6

SimilarityScale == 10

ExceedsThreshold(f) == f[1] * SimilarityScale > SimilarityThreshold * f[2]

\* Variant of Clean: the token is trimmed but its case is kept.
Clean_NoLower(symptom) == Strip(symptom)

\* symptom_clean = str(symptom).strip().lower()
Clean(symptom) == Lower(Strip(symptom))

\* Variant of FirstAlias: the last alias that is in the vocabulary wins.
FirstAlias_Last(symptom_clean, vocab) ==
    IF symptom_clean \in DOMAIN symptom_mappings
    THEN LET aliases == symptom_mappings[symptom_clean]
             hits == {i \in 1..Len(aliases) : InList(aliases[i], vocab)}
         IN  IF hits = {} THEN 0 ELSE CHOOSE i \in hits : \A j \in hits : i >= j
    ELSE 0

\* The inner loop over symptom_mappings[symptom_clean]: index of the first
\* alias that is in the vocabulary, 0 when the loop ends without a break.
FirstAlias(symptom_clean, vocab) ==
    IF symptom_clean \in DOMAIN symptom_mappings
    THEN LET aliases == symptom_mappings[symptom_clean]
             hits == {i \in 1..Len(aliases) : InList(aliases[i], vocab)}
         IN  IF hits = {} THEN 0 ELSE CHOOSE i \in hits : \A j \in hits : i <= j
    ELSE 0

\* The condition of the fuzzy loop for one known_symptom.
FuzzyTest(symptom_clean, known_symptom) ==
    \/ IsSubstr(symptom_clean, known_symptom)
    \/ IsSubstr(known_symptom, symptom_clean)
    \/ ExceedsThreshold(similarity(symptom_clean, known_symptom))

\* Variant of FirstFuzzy: the last entry that passes the test wins.
FirstFuzzy_Last(symptom_clean, vocab) ==
    LET hits == {i \in 1..Len(vocab) : FuzzyTest(symptom_clean, vocab[i])}
    IN  IF hits = {} THEN 0 ELSE CHOOSE i \in hits : \A j \in hits : i >= j

\* The fuzzy loop over self.all_symptoms: index of the first entry that passes
\* the test, 0 when the loop ends without a break.
FirstFuzzy(symptom_clean, vocab) ==
    LET hits == {i \in 1..Len(vocab) : FuzzyTest(symptom_clean, vocab[i])}
    IN  IF hits = {} THEN 0 ELSE CHOOSE i \in hits : \A j \in hits : i <= j

\* Variant of MatchOne: the fuzzy branch appends the token, not the
\* vocabulary entry it matched.
MatchOne_FuzzyKeepsToken(symptom, vocab) ==
    LET symptom_clean == Clean(symptom)
        a == FirstAlias(symptom_clean, vocab)
        f == FirstFuzzy(symptom_clean, vocab)
    IN  IF InList(symptom_clean, vocab)
        THEN [to |-> "valid", value |-> symptom_clean, by |-> "exact"]
        ELSE IF a # 0
        THEN [to |-> "valid", value |-> symptom_mappings[symptom_clean][a], by |-> "alias"]
        ELSE IF f # 0
        THEN [to |-> "valid", value |-> symptom_clean, by |-> "fuzzy"]
        ELSE [to |-> "invalid", value |-> symptom, by |-> "none"]

\* Variant of MatchOne: `invalid` gets the cleaned token, not the token as
\* the caller gave it.
MatchOne_InvalidKeepsClean(symptom, vocab) ==
    LET symptom_clean == Clean(symptom)
        a == FirstAlias(symptom_clean, vocab)
        f == FirstFuzzy(symptom_clean, vocab)
    IN  IF InList(symptom_clean, vocab)
        THEN [to |-> "valid", value |-> symptom_clean, by |-> "exact"]
        ELSE IF a # 0
        THEN [to |-> "valid", value |-> symptom_mappings[symptom_clean][a], by |-> "alias"]
        ELSE IF f # 0
        THEN [to |-> "valid", value |-> vocab[f], by |-> "fuzzy"]
        ELSE [to |-> "invalid", value |-> symptom_clean, by |-> "none"]

\* Variant of MatchOne: the alias branch appends the token, not the alias.
MatchOne_AliasKeepsToken(symptom, vocab) ==
    LET symptom_clean == Clean(symptom)
        a == FirstAlias(symptom_clean, vocab)
        f == FirstFuzzy(symptom_clean, vocab)
    IN  IF InList(symptom_clean, vocab)
        THEN [to |-> "valid", value |-> symptom_clean, by |-> "exact"]
        ELSE IF a # 0
        THEN [to |-> "valid", value |-> symptom_clean, by |-> "alias"]
        ELSE IF f # 0
        THEN [to |-> "valid", value |-> vocab[f], by |-> "fuzzy"]
        ELSE [to |-> "invalid", value |-> symptom, by |-> "none"]

\* One iteration of the loop of validate_symptoms: what the token adds.
\* [to |-> "valid" | "invalid", value |-> the element appended, by |-> the branch]
MatchOne(symptom, vocab) ==
    LET symptom_clean == Clean(symptom)
        a == FirstAlias(symptom_clean, vocab)
        f == FirstFuzzy(symptom_clean, vocab)
    IN  IF InList(symptom_clean, vocab)
        THEN [to |-> "valid", value |-> symptom_clean, by |-> "exact"]
        ELSE IF a # 0
        THEN [to |-> "valid", value |-> symptom_mappings[symptom_clean][a], by |-> "alias"]
        ELSE IF f # 0
        THEN [to |-> "valid", value |-> vocab[f], by |-> "fuzzy"]
        ELSE [to |-> "invalid", value |-> symptom, by |-> "none"]

RECURSIVE SelectTo(_, _, _)
SelectTo(symptoms, vocab, side) ==
    IF symptoms = <<>>
    THEN <<>>
    ELSE LET m == MatchOne(Head(symptoms), vocab)
             rest == SelectTo(Tail(symptoms), vocab, side)
         IN  IF m.to = side THEN <<m.value>> \o rest ELSE rest

\* validate_symptoms(symptoms) on vocabulary vocab: the pair (valid, invalid).
validate_symptoms(symptoms, vocab) ==
    [valid   |-> SelectTo(symptoms, vocab, "valid"),
     invalid |-> SelectTo(symptoms, vocab, "invalid")]

(* ------------------------------------------------------- ordering of strs *)

\* Code-point order of the characters the model uses (ASCII order).
Alphabet == <<"\t", " ", "0", "1", "2", "3", "4", "5", "6", "7", "8", "9">>
            \o UpperChars \o <<"_">> \o LowerChars

Ord(c) == CHOOSE i \in 1..Len(Alphabet) : Alphabet[i] = c

\* a < b for two strs, as numpy's sort of the class labels compares them.
RECURSIVE StrLess(_, _)
StrLess(a, b) ==
    IF b = <<>> THEN FALSE
    ELSE IF a = <<>> THEN TRUE
    ELSE IF Head(a) = Head(b) THEN StrLess(Tail(a), Tail(b))
    ELSE Ord(Head(a)) < Ord(Head(b))

\* The distinct elements of a set of strs in increasing order (np.unique).
RECURSIVE SortedSeq(_)
SortedSeq(S) ==
    IF S = {} THEN <<>>
    ELSE LET m == CHOOSE x \in S : \A z \in S \ {x} : StrLess(x, z)
         IN  <<m>> \o SortedSeq(S \ {m})

RECURSIVE SumRows(_)
SumRows(rows) == IF rows = <<>> THEN 0 ELSE Head(rows).rows + SumRows(Tail(rows))

Min(a, b) == IF a <= b THEN a ELSE b

(* ------------------------------------------------------- the input files *)

\* Disease labels and treatment texts of the modelled CSV files.
l_Flu == <<"F", "l", "u">>
l_flu_sp == <<"f", "l", "u", " ">>
l_Cold == <<"C", "o", "l", "d">>
l_Acne == <<"A", "c", "n", "e">>
l_Gout == <<"G", "o", "u", "t">>
l_Rare == <<"R", "a", "r", "e">>
l_1 == <<"1">>
l_2 == <<"2">>
t_rest == <<"r", "e", "s", "t", " ">>
t_tea == <<" ", "t", "e", "a">>

\* Raw column names of the training files.
c_High_Fever == <<"H", "i", "g", "h", "_", "F", "e", "v", "e", "r">>
c_Headache_sp == <<" ", "H", "e", "a", "d", "a", "c", "h", "e">>
c_Skin_Rash == <<"S", "k", "i", "n", " ", "R", "a", "s", "h">>

\* A training file: whether it can be read, whether it has the column
\* 'prognosis', the names of its other columns, the number of rows of each
\* label, the dtype pandas gives the label column, whether every feature
\* cell is numeric, and `pattern`, which stands for the cell values: the
\* class offsets the trees fitted on them vote for, tree after tree.
TrainFile(readable, hasPrognosis, columns, labels, dtype, numeric, pattern) ==
    [readable |-> readable, hasPrognosis |-> hasPrognosis, columns |-> columns,
     labels |-> labels, dtype |-> dtype, numeric |-> numeric, pattern |-> pattern]

Rows(label, n) == [label |-> label, rows |-> n]

TrainFiles ==
    { TrainFile(TRUE, TRUE, <<s_mild_fever, c_High_Fever, c_Headache_sp, s_skin_rash>>,
                <<Rows(l_Flu, 6), Rows(l_Cold, 5), Rows(l_Rare, 1), Rows(l_Acne, 5),
                  Rows(l_Gout, 4)>>, "str", TRUE, <<0, 0, 1, 2, 3>>),
      TrainFile(TRUE, TRUE, <<s_fever, s_high_fever, c_Skin_Rash>>,
                <<Rows(l_Flu, 3), Rows(l_flu_sp, 3)>>, "str", TRUE, <<0, 1>>),
      TrainFile(TRUE, TRUE, <<s_cough>>,
                <<Rows(l_1, 3), Rows(l_2, 3)>>, "int64", TRUE, <<0, 1>>),
      TrainFile(TRUE, TRUE, <<s_cough, s_mild_fever>>,
                <<Rows(l_Flu, 3), Rows(l_Cold, 3)>>, "str", FALSE, <<0>>),
      TrainFile(TRUE, TRUE, <<s_nausea, s_rash, c_Skin_Rash>>,
                <<Rows(l_Flu, 1), Rows(l_Cold, 1)>>, "str", TRUE, <<0>>),
      TrainFile(TRUE, FALSE, <<s_cough>>,
                <<>>, "str", TRUE, <<0>>) }

\* A treatment file: whether it can be read, which of the columns 'Code',
\* 'Name' and 'Treatments' it has, and its rows (name cell, treatment cell).
TreatFile(readable, hasCode, hasName, hasTreatments, rows) ==
    [readable |-> readable, hasCode |-> hasCode, hasName |-> hasName,
     hasTreatments |-> hasTreatments, rows |-> rows]

TreatFiles ==
    { TreatFile(TRUE, FALSE, TRUE, TRUE,
                <<<<l_Flu, t_rest>>, <<l_flu_sp, t_tea>>, <<s_nan, s_nan>>>>),
      TreatFile(TRUE, TRUE, FALSE, TRUE, <<>>),
      TreatFile(TRUE, FALSE, TRUE, FALSE, <<<<l_Flu, t_rest>>>>),
      TreatFile(FALSE, FALSE, TRUE, TRUE, <<<<l_Flu, t_rest>>>>) }

\* The tokens a caller may put in the list handed to diagnose.
Tokens ==
    { <<"H", "e", "a", "d", "a", "c", "h", "e">>,
      s_fever,
      <<" ", "R", "a", "s", "h", " ">>,
      <<"r", "a", "s", "h", " ", "s", "k", "i", "n">>,
      <<"h", "i", "g", "h", " ", "f", "e", "v", "e", "r">>,
      <<"x", "y", "z">>,
      s_empty,
      <<" ", " ">> }

\* The token lists of at most MaxTokens tokens.
TokenLists == UNION {[1..n -> Tokens] : n \in 0..MaxTokens}

(* ------------------------------------------------------------ the object *)

VARIABLES
    model,            \* self.model: None, an unfitted forest or a fitted one
    treatment_dict,   \* self.treatment_dict
    all_symptoms,     \* self.all_symptoms
    disease_classes,  \* self.disease_classes
    is_trained,       \* self.is_trained
    X,                \* self.X (absent until load_data sets it)
    y,                \* self.y (absent until load_data sets it)
    call,             \* the method called last, with its argument, until the
                      \* caller has taken its result
    ret,              \* what that call returned
    cli,              \* main(): where it is, and what it has done so far
    gui,              \* MedicalChatbotGUI: its fields and widgets, the main
                      \* loop's queue of callbacks, where its threads are,
                      \* and what they have done so far
    web,              \* streamlit_app.py: st.session_state, and where the
                      \* script is
    trace             \* what that call did on the way, and the history:
                      \* "train_model has returned True", the label rows
                      \* of the training file loaded last, and "train_model
                      \* has returned True since that file was loaded"

vars == <<model, treatment_dict, all_symptoms, disease_classes, is_trained,
          X, y, call, ret, trace, cli, gui, web>>

core == <<model, treatment_dict, all_symptoms, disease_classes, is_trained, X, y>>

\* The state of the programs that use the object.
front == <<cli, gui, web>>

\* self.model = None
NoModel == [state |-> "None", n_features |-> 0, feature_names_in_ |-> <<>>,
            classes |-> <<>>, dtype |-> "str", pattern |-> <<0>>]

\* No call is pending: the caller is between two calls.
Idle == [op |-> "idle", arg |-> <<>>]

NoRet == [none |-> TRUE]

NoTrace == [validated |-> FALSE, predict_calls |-> 0, vector |-> <<>>, raised |-> "none"]

\* History of diagnose calls: none remembered.
NoMemo == [set |-> FALSE, arg |-> <<>>, ret |-> NoRet, between |-> FALSE]

\* self.placeholder_text
placeholder_text ==
    <<"D", "e", "s", "c", "r", "i", "b", "e", " ", "y", "o", "u", "r", " ",
      "s", "y", "m", "p", "t", "o", "m", "s", " ", "(", "e", ".", "g", ".",
      ",", " ", "f", "e", "v", "e", "r", ",", " ", "h", "e", "a", "d", "a",
      "c", "h", "e", ",", " ", "n", "a", "u", "s", "e", "a", ")", ".", ".",
      ".">>

\* __init__
Init ==
    /\ model = NoModel
    /\ treatment_dict = << >>
    /\ all_symptoms = <<>>
    /\ disease_classes = [dtype |-> "list", items |-> <<>>]
    /\ is_trained = FALSE
    /\ X = [present |-> FALSE, columns |-> <<>>, numeric |-> TRUE, pattern |-> <<0>>]
    /\ y = [present |-> FALSE, dtype |-> "str", rows |-> <<>>]
    /\ call = Idle
    /\ ret = NoRet
    /\ trace = [last |-> NoTrace, train_ok |-> FALSE, table |-> <<>>, fresh |-> FALSE,
                memo |-> NoMemo]
    /\ cli = [pc |-> "main", loads |-> 0, trains |-> 0, load_ret |-> "none",
              train_ret |-> "none", chat |-> FALSE, diagnosed |-> FALSE,
              shown |-> "none", input |-> <<>>]
    /\ gui = [mainloop |-> FALSE, init_pc |-> "status_loading", is_initialized |-> FALSE,
              entry |-> "disabled", send |-> "disabled", others |-> "disabled",
              text |-> placeholder_text, status |-> "initializing", after |-> <<>>,
              session |-> <<>>, workers |-> <<>>, analyses |-> 0,
              load_ret |-> "none", train_ret |-> "none", failed |-> FALSE,
              diagnosed |-> FALSE, last |-> "none", direct |-> {},
              label |-> "Analyze", recorded |-> {}]
    /\ web = [pc |-> "initialize", is_initialized |-> FALSE,
              conversation_history |-> <<>>, input |-> <<>>, last |-> "none"]

(* --------------------------------------------------------------- load_data *)

\* The cell cleaning of the treatment file: `str(x).strip() != 'nan'` decides
\* between the cleaned cell and ''.
CleanName(x) == IF Strip(x) # s_nan THEN Lower(Strip(x)) ELSE s_empty

CleanTreatment(x) == IF Strip(x) # s_nan THEN Strip(x) ELSE s_empty

\* dict(zip(names, treatments)): a later row replaces an earlier one with
\* the same key.
RECURSIVE DictOfRows(_)
DictOfRows(rows) ==
    IF rows = <<>>
    THEN << >>
    ELSE LET last == rows[Len(rows)]
         IN  (CleanName(last[1]) :> CleanTreatment(last[2]))
             @@ DictOfRows(SubSeq(rows, 1, Len(rows) - 1))

\* df_model_data.columns = [str(col).lower().strip() for col in ...]
NormalizeColumns(columns) == [i \in 1..Len(columns) |-> Strip(Lower(columns[i]))]

\* The rows load_data keeps: those of labels with at least MinRows rows.
MinRows == 2

KeepRows(rows) == SelectSeq(rows, LAMBDA r : ~(r.rows < MinRows))

\* The outcome of load_data on a pair of files: how far it got
\* ("early": an exception before any field was assigned; "late": the
\* 'No data remains' exception; "ok"), and the fields it assigned.
LoadOutcome(train, treat) ==
    LET columns == NormalizeColumns(train.columns)
        kept == KeepRows(train.labels)
        empty == Len(columns) = 0 \/ SumRows(kept) = 0
    IN  [stage |->
            IF \/ ~train.readable \/ ~treat.readable
               \/ ~train.hasPrognosis
               \/ (~treat.hasCode /\ ~treat.hasName)
               \/ ~treat.hasTreatments
            THEN "early"
            ELSE IF empty THEN "late" ELSE "ok",
         treatment_dict |->
            IF Len(treat.rows) > 0 THEN DictOfRows(treat.rows) ELSE treatment_dict,
         X |-> [present |-> TRUE, columns |-> columns, numeric |-> train.numeric,
                pattern |-> train.pattern],
         y |-> [present |-> TRUE, dtype |-> train.dtype, rows |-> kept],
         all_symptoms |-> columns]

load_data(train, treat) ==
    LET o == LoadOutcome(train, treat)
    IN  /\ call = Idle
        /\ call' = [op |-> "load_data", arg |-> <<>>]
        /\ ret' = [value |-> (o.stage = "ok")]
        /\ trace' = [trace EXCEPT !.last = NoTrace,
                                  !.table = IF o.stage = "early" THEN @ ELSE train.labels,
                                  !.fresh = IF o.stage = "early" THEN @ ELSE FALSE,
                                  !.memo = NoMemo]
        /\ IF o.stage = "early"
           THEN UNCHANGED <<treatment_dict, X, y, all_symptoms>>
           ELSE /\ treatment_dict' = o.treatment_dict
                /\ X' = o.X
                /\ y' = o.y
                /\ all_symptoms' = o.all_symptoms
        /\ UNCHANGED <<model, disease_classes, is_trained>>

(* ------------------------------------------------------------- train_model *)

\* test_size=0.2: the test part is ceil(n / 5), the training part floor(4n / 5).
TestDivisor == 5

TestSize(n) == (n + TestDivisor - 1) \div TestDivisor

TrainSize(n) == ((TestDivisor - 1) * n) \div TestDivisor

\* train_test_split(..., stratify=self.y) raises: no data, a class with one
\* row, or fewer rows in a part than there are classes.
SplitRaises ==
    LET n == SumRows(y.rows)
        k == Len(y.rows)
    IN  \/ ~X.present
        \/ n = 0
        \/ TrainSize(n) = 0
        \/ \E i \in 1..k : y.rows[i].rows < 2
        \/ TrainSize(n) < k
        \/ TestSize(n) < k

\* RandomForestClassifier(...) before fit
UnfittedModel == [state |-> "unfitted", n_features |-> 0,
                  feature_names_in_ |-> <<>>, classes |-> <<>>,
                  dtype |-> "str", pattern |-> <<0>>]

\* Variant of FittedModel: the classes are the labels of the whole file,
\* those with fewer than MinRows rows included.
FittedModel_AllFileLabels ==
    [state |-> "fitted", n_features |-> Len(X.columns),
     feature_names_in_ |-> X.columns,
     classes |-> SortedSeq({trace.table[i].label : i \in 1..Len(trace.table)}),
     dtype |-> y.dtype, pattern |-> X.pattern]

\* The forest after fit on the training part of (self.X, self.y); the
\* columns of the frame it was fitted on are its feature names.
FittedModel ==
    [state |-> "fitted", n_features |-> Len(X.columns),
     feature_names_in_ |-> X.columns,
     classes |-> SortedSeq({y.rows[i].label : i \in 1..Len(y.rows)}),
     dtype |-> y.dtype, pattern |-> X.pattern]

\* How far train_model gets: "split" and "fit" name the call that raised.
TrainStage == IF SplitRaises THEN "split" ELSE IF ~X.numeric THEN "fit" ELSE "ok"

\* Variant of train_model: is_trained is set whether or not training
\* succeeded.
train_model_FlagAlways ==
    /\ call = Idle
    /\ call' = [op |-> "train_model", arg |-> <<>>]
    /\ ret' = [value |-> (TrainStage = "ok")]
    /\ trace' = [trace EXCEPT !.last = NoTrace,
                              !.train_ok = (@ \/ TrainStage = "ok"),
                              !.fresh = (@ \/ TrainStage = "ok"),
                              !.memo = NoMemo]
    /\ model' = CASE TrainStage = "split" -> model
                  [] TrainStage = "fit" -> UnfittedModel
                  [] OTHER -> FittedModel
    /\ disease_classes' =
          IF TrainStage = "ok"
          THEN [dtype |-> FittedModel.dtype, items |-> FittedModel.classes]
          ELSE disease_classes
    /\ is_trained' = TRUE
    /\ UNCHANGED <<treatment_dict, all_symptoms, X, y>>

train_model ==
    /\ call = Idle
    /\ call' = [op |-> "train_model", arg |-> <<>>]
    /\ ret' = [value |-> (TrainStage = "ok")]
    /\ trace' = [trace EXCEPT !.last = NoTrace,
                              !.train_ok = (@ \/ TrainStage = "ok"),
                              !.fresh = (@ \/ TrainStage = "ok"),
                              !.memo = NoMemo]
    /\ model' = CASE TrainStage = "split" -> model
                  [] TrainStage = "fit" -> UnfittedModel
                  [] OTHER -> FittedModel
    /\ disease_classes' =
          IF TrainStage = "ok"
          THEN [dtype |-> FittedModel.dtype, items |-> FittedModel.classes]
          ELSE disease_classes
    /\ is_trained' = (is_trained \/ TrainStage = "ok")
    /\ UNCHANGED <<treatment_dict, all_symptoms, X, y>>

(* ---------------------------------------------------------------- diagnose *)

\* Variant of InputVector: a component counts the occurrences of its entry
\* in valid_symptoms.
InputVector_Counts(valid_symptoms) ==
    [i \in 1..Len(all_symptoms) |->
        Cardinality({k \in 1..Len(valid_symptoms) : valid_symptoms[k] = all_symptoms[i]})]

\* input_vector = [1 if symptom in valid_symptoms else 0 for symptom in self.all_symptoms]
InputVector(valid_symptoms) ==
    [i \in 1..Len(all_symptoms) |-> IF InList(all_symptoms[i], valid_symptoms) THEN 1 ELSE 0]

RECURSIVE Weight(_)
Weight(v) == IF v = <<>> THEN 0 ELSE Len(v) * v[Len(v)] + Weight(SubSeq(v, 1, Len(v) - 1))

\* The class (an index into classes_) tree t of the fitted forest m votes
\* for on input vector v.
Vote(t, v, m) ==
    ((m.pattern[((t - 1) % Len(m.pattern)) + 1] + Weight(v)) % Len(m.classes)) + 1

\* self.model.predict_proba([input_vector]) raises: no model, a model that
\* was never fitted, or a vector of another length than the model was
\* fitted on.
PredictRaises(m, v) == m.state # "fitted" \/ Len(v) # m.n_features

\* self.model.predict_proba([input_vector])[0]: per class, the share of the
\* trees voting for it, as a number of trees out of NTrees.
predict_proba(m, v) ==
    [c \in 1..Len(m.classes) |-> Cardinality({t \in 1..NTrees : Vote(t, v, m) = c})]

\* list(zip(self.disease_classes, probabilities))
Zip(classes, probabilities) ==
    [i \in 1..Min(Len(classes), Len(probabilities)) |-> <<classes[i], probabilities[i]>>]

\* Variant of InsertDesc: x goes before the elements whose probability
\* equals its own.
RECURSIVE InsertDesc_BeforeEqual(_, _)
InsertDesc_BeforeEqual(sorted, x) ==
    IF sorted = <<>> THEN <<x>>
    ELSE IF Head(sorted)[2] > x[2]
         THEN <<Head(sorted)>> \o InsertDesc_BeforeEqual(Tail(sorted), x)
         ELSE <<x>> \o sorted

\* One insertion of the stable descending sort: x goes after every element
\* whose probability is at least its own.
RECURSIVE InsertDesc(_, _)
InsertDesc(sorted, x) ==
    IF sorted = <<>> THEN <<x>>
    ELSE IF Head(sorted)[2] >= x[2]
         THEN <<Head(sorted)>> \o InsertDesc(Tail(sorted), x)
         ELSE <<x>> \o sorted

\* Variant of the sort: the list is left in class order.
SortByProb_None(pairs) == pairs

\* Variant of the sort: ascending by probability (reverse=True left out).
RECURSIVE InsertAsc(_, _)
InsertAsc(sorted, x) ==
    IF sorted = <<>> THEN <<x>>
    ELSE IF Head(sorted)[2] <= x[2]
         THEN <<Head(sorted)>> \o InsertAsc(Tail(sorted), x)
         ELSE <<x>> \o sorted

RECURSIVE SortByProbAsc(_)
SortByProbAsc(pairs) ==
    IF pairs = <<>> THEN <<>>
    ELSE InsertAsc(SortByProbAsc(SubSeq(pairs, 1, Len(pairs) - 1)), pairs[Len(pairs)])

\* disease_probs.sort(key=lambda x: x[1], reverse=True)
RECURSIVE SortByProbDesc(_)
SortByProbDesc(pairs) ==
    IF pairs = <<>> THEN <<>>
    ELSE InsertDesc(SortByProbDesc(SubSeq(pairs, 1, Len(pairs) - 1)), pairs[Len(pairs)])

\* disease_probs[:3]
TopN == 3

\* Variant of the slice: only the first entry is kept.
TopPredictions_One(disease_probs) == SubSeq(disease_probs, 1, Min(1, Len(disease_probs)))

TopPredictions(disease_probs) == SubSeq(disease_probs, 1, Min(TopN, Len(disease_probs)))

DefaultTreatment == "Consult a medical professional for proper treatment."

\* self.treatment_dict.get(top_disease.lower(), <default>)
TreatmentFor(top_disease) ==
    IF Lower(top_disease) \in DOMAIN treatment_dict
    THEN [text |-> treatment_dict[Lower(top_disease)], default |-> ""]
    ELSE [text |-> <<>>, default |-> DefaultTreatment]

\* Variant of SuccessResult: the result also carries the key `error`.
SuccessResult_WithErrorKey(v) ==
    LET probabilities == predict_proba(model, InputVector(v.valid))
        disease_probs == SortByProbDesc(Zip(disease_classes.items, probabilities))
        top_predictions == TopPredictions(disease_probs)
    IN  [error |-> "",
         top_predictions |-> top_predictions,
         treatment |-> TreatmentFor(top_predictions[1][1]),
         valid_symptoms |-> v.valid,
         invalid_symptoms |-> v.invalid,
         confidence |-> IF top_predictions # <<>> THEN top_predictions[1][2] ELSE 0]

\* The body of the try block of diagnose, for the case that nothing raises.
SuccessResult(v) ==
    LET probabilities == predict_proba(model, InputVector(v.valid))
        disease_probs == SortByProbDesc(Zip(disease_classes.items, probabilities))
        top_predictions == TopPredictions(disease_probs)
    IN  [top_predictions |-> top_predictions,
         treatment |-> TreatmentFor(top_predictions[1][1]),
         valid_symptoms |-> v.valid,
         invalid_symptoms |-> v.invalid,
         confidence |-> IF top_predictions # <<>> THEN top_predictions[1][2] ELSE 0]

\* Which statement of the try block raises, "none" when none does:
\* predict_proba, top_predictions[0] on an empty list, or .lower() on a
\* label that is not a str.
RaisedAt(v) ==
    IF PredictRaises(model, InputVector(v.valid)) THEN "predict_proba"
    ELSE IF Min(Len(disease_classes.items), Len(model.classes)) = 0 THEN "top_predictions[0]"
    ELSE IF disease_classes.dtype # "str" THEN "lower"
    ELSE "none"

\* Variant of OnException: no except clause, the exception leaves diagnose.
OnException_Propagates(where) == [raised |-> where]

\* except Exception as e: return {"error": f"Prediction error: {e}"}
OnException(where) == [error |-> "Prediction error"]

\* Variant of Diagnose: the no-valid-symptoms result reports the wrong list.
Diagnose_WrongList(symptoms) ==
    LET v == validate_symptoms(symptoms, all_symptoms)
    IN  IF ~is_trained
        THEN [ret |-> [error |-> "Model not trained"], did |-> NoTrace]
        ELSE IF v.valid = <<>>
        THEN [ret |-> [error |-> "No valid symptoms provided",
                       invalid_symptoms |-> v.valid],
              did |-> [validated |-> TRUE, predict_calls |-> 0, vector |-> <<>>, raised |-> "none"]]
        ELSE IF RaisedAt(v) # "none"
        THEN [ret |-> OnException(RaisedAt(v)),
              did |-> [validated |-> TRUE, predict_calls |-> 1, vector |-> InputVector(v.valid), raised |-> RaisedAt(v)]]
        ELSE [ret |-> SuccessResult(v),
              did |-> [validated |-> TRUE, predict_calls |-> 1, vector |-> InputVector(v.valid), raised |-> "none"]]

\* Variant of Diagnose: the check `if not valid_symptoms` is missing.
Diagnose_NoEmptyCheck(symptoms) ==
    LET v == validate_symptoms(symptoms, all_symptoms)
    IN  IF ~is_trained
        THEN [ret |-> [error |-> "Model not trained"], did |-> NoTrace]
        ELSE IF RaisedAt(v) # "none"
        THEN [ret |-> OnException(RaisedAt(v)),
              did |-> [validated |-> TRUE, predict_calls |-> 1, vector |-> InputVector(v.valid), raised |-> RaisedAt(v)]]
        ELSE [ret |-> SuccessResult(v),
              did |-> [validated |-> TRUE, predict_calls |-> 1, vector |-> InputVector(v.valid), raised |-> "none"]]

\* diagnose(symptoms): the result returned and what the call did.
Diagnose(symptoms) ==
    LET v == validate_symptoms(symptoms, all_symptoms)
    IN  IF ~is_trained
        THEN [ret |-> [error |-> "Model not trained"], did |-> NoTrace]
        ELSE IF v.valid = <<>>
        THEN [ret |-> [error |-> "No valid symptoms provided",
                       invalid_symptoms |-> v.invalid],
              did |-> [validated |-> TRUE, predict_calls |-> 0, vector |-> <<>>, raised |-> "none"]]
        ELSE IF RaisedAt(v) # "none"
        THEN [ret |-> OnException(RaisedAt(v)),
              did |-> [validated |-> TRUE, predict_calls |-> 1, vector |-> InputVector(v.valid), raised |-> RaisedAt(v)]]
        ELSE [ret |-> SuccessResult(v),
              did |-> [validated |-> TRUE, predict_calls |-> 1, vector |-> InputVector(v.valid), raised |-> "none"]]

\* Variant of diagnose: the classes are left in the order of the ranking.
diagnose_StoresRanking(symptoms) ==
    /\ call = Idle
    /\ call' = [op |-> "diagnose", arg |-> symptoms]
    /\ LET d == Diagnose(symptoms)
       IN  /\ ret' = d.ret
           /\ trace' = [trace EXCEPT !.last = d.did]
           /\ disease_classes' =
                 IF "top_predictions" \in DOMAIN d.ret
                 THEN [disease_classes EXCEPT !.items =
                          LET ranked == SortByProbDesc(Zip(disease_classes.items,
                                  predict_proba(model, InputVector(d.ret.valid_symptoms))))
                          IN  [i \in 1..Len(ranked) |-> ranked[i][1]]]
                 ELSE disease_classes
    /\ UNCHANGED <<model, treatment_dict, all_symptoms, is_trained, X, y>>

diagnose(symptoms) ==
    /\ call = Idle
    /\ call' = [op |-> "diagnose", arg |-> symptoms]
    /\ LET d == Diagnose(symptoms)
       IN  /\ ret' = d.ret
           /\ trace' = [trace EXCEPT !.last = d.did]
    /\ UNCHANGED core

\* The token lists whose first result on a trained object is remembered.
ProbeLists ==
    { <<>>, <<s_fever>>, <<<<"x", "y", "z">>>>, <<<<"x", "y", "z">>, s_fever>> }

\* The history after diagnose(symptoms) has returned r: the first call with
\* a probe list on a trained object is remembered, and so is whether a call
\* with another list has followed it.
Remember(memo, symptoms, r) ==
    IF ~memo.set
    THEN IF is_trained /\ symptoms \in ProbeLists
         THEN [set |-> TRUE, arg |-> symptoms, ret |-> r, between |-> FALSE]
         ELSE memo
    ELSE IF symptoms # memo.arg THEN [memo EXCEPT !.between = TRUE] ELSE memo

\* Variant of diagnose_recorded: the classes are left in the order of the
\* ranking.
diagnose_recorded_StoresRanking(symptoms) ==
    /\ call = Idle
    /\ call' = [op |-> "diagnose", arg |-> symptoms]
    /\ LET d == Diagnose(symptoms)
       IN  /\ ret' = d.ret
           /\ trace' = [trace EXCEPT !.last = d.did,
                                     !.memo = Remember(@, symptoms, d.ret)]
           /\ disease_classes' =
                 IF "top_predictions" \in DOMAIN d.ret
                 THEN [disease_classes EXCEPT !.items =
                          LET ranked == SortByProbDesc(Zip(disease_classes.items,
                                  predict_proba(model, InputVector(d.ret.valid_symptoms))))
                          IN  [i \in 1..Len(ranked) |-> ranked[i][1]]]
                 ELSE disease_classes
    /\ UNCHANGED <<model, treatment_dict, all_symptoms, is_trained, X, y>>

\* diagnose(symptoms), with the history of the calls kept.
diagnose_recorded(symptoms) ==
    /\ call = Idle
    /\ call' = [op |-> "diagnose", arg |-> symptoms]
    /\ LET d == Diagnose(symptoms)
       IN  /\ ret' = d.ret
           /\ trace' = [trace EXCEPT !.last = d.did,
                                     !.memo = Remember(@, symptoms, d.ret)]
    /\ UNCHANGED core

\* A direct call of validate_symptoms(symptoms).
validate(symptoms) ==
    /\ call = Idle
    /\ call' = [op |-> "validate_symptoms", arg |-> symptoms]
    /\ ret' = validate_symptoms(symptoms, all_symptoms)
    /\ trace' = [trace EXCEPT !.last = [validated |-> TRUE, predict_calls |-> 0,
                                        vector |-> <<>>,
                                        raised |-> "none"]]
    /\ UNCHANGED core

(* ------------------------------------- format_diagnosis_report, suggestions *)

\* format_diagnosis_report(diagnosis, patient_info): the parts of the text
\* that come from the diagnosis: the error line alone, or the reported
\* symptoms, the unrecognized ones when there are any, the ranked results
\* and the treatment.
FormatReport(diagnosis) ==
    IF "error" \in DOMAIN diagnosis
    THEN [error_line |-> diagnosis.error]
    ELSE [reported |-> diagnosis.valid_symptoms,
          unrecognized_shown |-> (diagnosis.invalid_symptoms # <<>>),
          unrecognized |-> diagnosis.invalid_symptoms,
          results |-> diagnosis.top_predictions,
          treatment |-> diagnosis.treatment]

\* A call of format_diagnosis_report on the result diagnose gives for
\* `symptoms`.
format_diagnosis_report(symptoms) ==
    /\ call = Idle
    /\ call' = [op |-> "format_diagnosis_report", arg |-> symptoms]
    /\ ret' = FormatReport(Diagnose(symptoms).ret)
    /\ trace' = [trace EXCEPT !.last = NoTrace]
    /\ UNCHANGED core

\* return suggestions[:10]
MaxSuggestions == 10

\* get_symptom_suggestions(partial_symptom): the entries whose lower-cased
\* name contains the lower-cased, stripped partial, the first ten of them.
Suggestions(partial_symptom) ==
    LET partial == Strip(Lower(partial_symptom))
        suggestions == SelectSeq(all_symptoms, LAMBDA symptom : IsSubstr(partial, Lower(symptom)))
    IN  SubSeq(suggestions, 1, Min(MaxSuggestions, Len(suggestions)))

get_symptom_suggestions(partial_symptom) ==
    /\ call = Idle
    /\ call' = [op |-> "get_symptom_suggestions", arg |-> <<partial_symptom>>]
    /\ ret' = [suggestions |-> Suggestions(partial_symptom)]
    /\ trace' = [trace EXCEPT !.last = NoTrace]
    /\ UNCHANGED core

\* The caller takes the result of the call and goes on; the object keeps
\* no record of the call.
take_result ==
    /\ call # Idle
    /\ call' = Idle
    /\ ret' = NoRet
    /\ trace' = [trace EXCEPT !.last = NoTrace]
    /\ UNCHANGED core

(* ------------------------------------------------------ the specification *)

\* The object used directly, by a caller that is none of the front ends.
Next ==
    \/ \E train \in TrainFiles, treat \in TreatFiles :
          load_data(train, treat) /\ UNCHANGED front
    \/ train_model /\ UNCHANGED front
    \/ \E symptoms \in TokenLists : diagnose(symptoms) /\ UNCHANGED front
    \/ \E symptoms \in TokenLists : validate(symptoms) /\ UNCHANGED front
    \/ \E symptoms \in TokenLists : format_diagnosis_report(symptoms) /\ UNCHANGED front
    \/ \E partial_symptom \in Tokens :
          get_symptom_suggestions(partial_symptom) /\ UNCHANGED front
    \/ take_result /\ UNCHANGED front

Spec == Init /\ [][Next]_vars

\* The object under calls of load_data, train_model and diagnose alone, with
\* the history of the diagnose calls kept.
NextRecorded ==
    \/ \E train \in TrainFiles, treat \in TreatFiles :
          load_data(train, treat) /\ UNCHANGED front
    \/ train_model /\ UNCHANGED front
    \/ \E symptoms \in TokenLists : diagnose_recorded(symptoms) /\ UNCHANGED front
    \/ take_result /\ UNCHANGED front

SpecRecorded == Init /\ [][NextRecorded]_vars

(* ------------------------------------------------ main and interactive_chat *)

\* The words the session loop and the continue prompt compare the input with.
s_quit == <<"q", "u", "i", "t">>
s_exit == <<"e", "x", "i", "t">>
s_bye == <<"b", "y", "e">>
s_help == <<"h", "e", "l", "p">>
s_suggestions == <<"s", "u", "g", "g", "e", "s", "t", "i", "o", "n", "s">>
s_y == <<"y">>
s_yes == <<"y", "e", "s">>

\* What the user may type at the symptoms prompt, and at the continue prompt.
UserInputs ==
    { <<"q", "u", "i", "t">>,
      <<" ", "E", "X", "I", "T">>,
      <<"B", "y", "e">>,
      <<"h", "e", "l", "p">>,
      <<"S", "u", "g", "g", "e", "s", "t", "i", "o", "n", "s">>,
      <<>>,
      <<" ", " ">>,
      <<"f", "e", "v", "e", "r", ",", " ", "x", "y", "z">>,
      <<"x", "y", "z">>,
      <<",">>,
      <<"H", "e", "a", "d", "a", "c", "h", "e", " ", ",", "f", "e", "v", "e", "r">> }

ContinueAnswers == { <<"y">>, <<" ", "Y", "E", "S", " ">>, <<"n">>, <<>> }

\* user_input.split(',')
RECURSIVE SplitComma(_, _)
SplitComma(s, cur) ==
    IF s = <<>> THEN <<cur>>
    ELSE IF Head(s) = "," THEN <<cur>> \o SplitComma(Tail(s), <<>>)
    ELSE SplitComma(Tail(s), Append(cur, Head(s)))

\* symptoms = [s.strip() for s in user_input.split(',')], the empty strings
\* removed.
ParseSymptoms(user_input) ==
    LET parts == SplitComma(user_input, <<>>)
        stripped == [i \in 1..Len(parts) |-> Strip(parts[i])]
    IN  SelectSeq(stripped, LAMBDA s : s # <<>>)

\* The branch of the session loop the stripped input takes.
InputKind(user_input) ==
    IF Lower(user_input) \in {s_quit, s_exit, s_bye} THEN "quit"
    ELSE IF Lower(user_input) = s_help THEN "help"
    ELSE IF Lower(user_input) = s_suggestions THEN "suggestions"
    ELSE IF user_input = <<>> THEN "empty"
    ELSE "symptoms"

\* main(): chatbot.load_data()
main_load_data(train, treat) ==
    /\ cli.pc = "main"
    /\ load_data(train, treat)
    /\ cli' = [cli EXCEPT !.pc = "load_data", !.loads = @ + 1]

\* Variant of main_after_load_data: main goes on to train_model whatever
\* load_data returned.
main_after_load_data_GoesOn ==
    /\ cli.pc = "load_data"
    /\ cli' = [cli EXCEPT !.load_ret = IF ret.value THEN "True" ELSE "False",
                          !.pc = "train"]
    /\ take_result

\* main(): `if not chatbot.load_data(): ... return`
main_after_load_data ==
    /\ cli.pc = "load_data"
    /\ cli' = [cli EXCEPT !.load_ret = IF ret.value THEN "True" ELSE "False",
                          !.pc = IF ret.value THEN "train" ELSE "returned"]
    /\ take_result

\* main(): chatbot.train_model()
main_train_model ==
    /\ cli.pc = "train"
    /\ train_model
    /\ cli' = [cli EXCEPT !.pc = "train_model", !.trains = @ + 1]

\* main(): `if not chatbot.train_model(): ... return`
main_after_train_model ==
    /\ cli.pc = "train_model"
    /\ cli' = [cli EXCEPT !.train_ret = IF ret.value THEN "True" ELSE "False",
                          !.pc = IF ret.value THEN "chat" ELSE "returned"]
    /\ take_result

\* interactive_chat(): the welcome text and the three patient questions.
interactive_chat ==
    /\ cli.pc = "chat"
    /\ cli' = [cli EXCEPT !.pc = "prompt", !.chat = TRUE]
    /\ UNCHANGED <<core, call, ret, trace>>

\* The session loop on quit/exit/bye, help, suggestions or an empty line.
chat_command(line) ==
    LET user_input == Strip(line)
    IN  /\ cli.pc = "prompt"
        /\ InputKind(user_input) # "symptoms"
        /\ cli' = [cli EXCEPT !.pc = IF InputKind(user_input) = "quit"
                                     THEN "returned" ELSE "prompt",
                              !.shown = InputKind(user_input),
                              !.input = line]
        /\ UNCHANGED <<core, call, ret, trace>>

\* The session loop on any other line: the symptoms are parsed and handed
\* to diagnose.
chat_diagnose(line) ==
    LET user_input == Strip(line)
    IN  /\ cli.pc = "prompt"
        /\ InputKind(user_input) = "symptoms"
        /\ diagnose(ParseSymptoms(user_input))
        /\ cli' = [cli EXCEPT !.pc = "diagnose", !.diagnosed = TRUE,
                              !.shown = "analyzing", !.input = line]

\* Variant of chat_display: an error result ends the session.
chat_display_ErrorEnds ==
    /\ cli.pc = "diagnose"
    /\ cli' = [cli EXCEPT !.pc = IF "error" \in DOMAIN ret THEN "returned" ELSE "continue",
                          !.shown =
                             IF "error" \in DOMAIN ret
                             THEN IF "invalid_symptoms" \in DOMAIN ret
                                     /\ ret.invalid_symptoms # <<>>
                                  THEN "error and invalid symptoms"
                                  ELSE "error"
                             ELSE "report"]
    /\ take_result

\* The session loop displays the result: the error, with the invalid
\* symptoms when there are any, or the report.
chat_display ==
    /\ cli.pc = "diagnose"
    /\ cli' = [cli EXCEPT !.pc = "continue",
                          !.shown =
                             IF "error" \in DOMAIN ret
                             THEN IF "invalid_symptoms" \in DOMAIN ret
                                     /\ ret.invalid_symptoms # <<>>
                                  THEN "error and invalid symptoms"
                                  ELSE "error"
                             ELSE "report"]
    /\ take_result

\* The continue prompt: y or yes goes back to the symptoms prompt, anything
\* else ends the session.
chat_continue(answer) ==
    /\ cli.pc = "continue"
    /\ cli' = [cli EXCEPT !.pc = IF Lower(Strip(answer)) \in {s_y, s_yes}
                                 THEN "prompt" ELSE "returned",
                          !.input = answer]
    /\ UNCHANGED <<core, call, ret, trace>>

\* input() raises (end of input, or the user interrupts): interactive_chat
\* is left through one of the except clauses of main.
input_raises ==
    /\ cli.pc \in {"chat", "prompt", "continue"}
    /\ cli' = [cli EXCEPT !.pc = "returned", !.shown = "interrupted"]
    /\ UNCHANGED <<core, call, ret, trace>>

NextMain ==
    \/ \E train \in TrainFiles, treat \in TreatFiles :
          main_load_data(train, treat) /\ UNCHANGED <<gui, web>>
    \/ main_after_load_data /\ UNCHANGED <<gui, web>>
    \/ main_train_model /\ UNCHANGED <<gui, web>>
    \/ main_after_train_model /\ UNCHANGED <<gui, web>>
    \/ interactive_chat /\ UNCHANGED <<gui, web>>
    \/ \E line \in UserInputs : chat_command(line) /\ UNCHANGED <<gui, web>>
    \/ \E line \in UserInputs : chat_diagnose(line) /\ UNCHANGED <<gui, web>>
    \/ chat_display /\ UNCHANGED <<gui, web>>
    \/ \E answer \in ContinueAnswers : chat_continue(answer) /\ UNCHANGED <<gui, web>>
    \/ input_raises /\ UNCHANGED <<gui, web>>

\* The program medical_chatbot.py run as a script.
SpecMain == Init /\ [][NextMain]_vars

(* ---------------------------------------------------------- the desktop GUI *)

\* What the user may leave in the symptom entry.
GuiTexts == { <<"f", "e", "v", "e", "r">>, <<" ", "x", "y", "z", " ", ",">>, <<",">>, <<" ", " ">>, <<>> }

\* The number of analyses the user starts in one run.
MaxAnalyses == 2

\* The calls of root.after in init_thread: where the thread is, the callback
\* it schedules there (update of update_status, enable of enable_input, add
\* of add_message), and where it goes next.
InitFlow ==
    [status_loading |-> [cb |-> [fn |-> "update", arg |-> "loading"], next |-> "load_data"],
     load_failed |-> [cb |-> [fn |-> "update", arg |-> "error: load"], next |-> "done"],
     status_training |-> [cb |-> [fn |-> "update", arg |-> "training"], next |-> "train_model"],
     train_failed |-> [cb |-> [fn |-> "update", arg |-> "error: train"], next |-> "done"],
     status_ready |-> [cb |-> [fn |-> "update", arg |-> "ready"], next |-> "set_initialized"],
     enable_input |-> [cb |-> [fn |-> "enable", arg |-> ""], next |-> "ready_message"],
     ready_message |-> [cb |-> [fn |-> "add", arg |-> "system"], next |-> "help_message"],
     help_message |-> [cb |-> [fn |-> "add", arg |-> "system"], next |-> "done"],
     except_status |-> [cb |-> [fn |-> "update", arg |-> "error: exception"],
                        next |-> "showerror"]]

\* init_thread at a call of update_status, enable_input or add_message:
\* root.after puts the callback in the queue of the main loop; called from
\* this thread while the main thread is not in the main loop it raises
\* RuntimeError, which takes the thread to its except clause, or, raised in
\* the except clause itself, ends the thread.
init_after ==
    /\ gui.init_pc \in DOMAIN InitFlow
    /\ gui' = IF gui.mainloop
              THEN [gui EXCEPT !.after = Append(@, InitFlow[gui.init_pc].cb),
                               !.init_pc = InitFlow[gui.init_pc].next]
              ELSE [gui EXCEPT !.init_pc = IF @ = "except_status" THEN "died"
                                           ELSE "except_status",
                               !.failed = TRUE]
    /\ UNCHANGED <<core, call, ret, trace>>

\* init_thread: self.chatbot.load_data()
init_load_data(train, treat) ==
    /\ gui.init_pc = "load_data"
    /\ load_data(train, treat)
    /\ gui' = [gui EXCEPT !.init_pc = "load_data returned"]

\* init_thread: `if not self.chatbot.load_data(): ... return`
init_after_load_data ==
    /\ gui.init_pc = "load_data returned"
    /\ call.op = "load_data"
    /\ gui' = [gui EXCEPT !.load_ret = IF ret.value THEN "True" ELSE "False",
                          !.failed = ~ret.value,
                          !.init_pc = IF ret.value THEN "status_training" ELSE "load_failed"]
    /\ take_result

\* init_thread: self.chatbot.train_model()
init_train_model ==
    /\ gui.init_pc = "train_model"
    /\ train_model
    /\ gui' = [gui EXCEPT !.init_pc = "train_model returned"]

\* Variant of init_after_train_model: the thread goes on to the success
\* branch whatever train_model returned.
init_after_train_model_GoesOn ==
    /\ gui.init_pc = "train_model returned"
    /\ call.op = "train_model"
    /\ gui' = [gui EXCEPT !.train_ret = IF ret.value THEN "True" ELSE "False",
                          !.failed = ~ret.value,
                          !.init_pc = "status_ready"]
    /\ take_result

\* init_thread: `if not self.chatbot.train_model(): ... return`
init_after_train_model ==
    /\ gui.init_pc = "train_model returned"
    /\ call.op = "train_model"
    /\ gui' = [gui EXCEPT !.train_ret = IF ret.value THEN "True" ELSE "False",
                          !.failed = ~ret.value,
                          !.init_pc = IF ret.value THEN "status_ready" ELSE "train_failed"]
    /\ take_result

\* init_thread: self.is_initialized = True
init_set_initialized ==
    /\ gui.init_pc = "set_initialized"
    /\ gui' = [gui EXCEPT !.is_initialized = TRUE, !.init_pc = "enable_input"]
    /\ UNCHANGED <<core, call, ret, trace>>

\* init_thread, except clause: messagebox.showerror(...), called in the
\* thread itself.
init_showerror ==
    /\ gui.init_pc = "showerror"
    /\ gui' = [gui EXCEPT !.direct = @ \cup {"messagebox.showerror"}, !.init_pc = "done"]
    /\ UNCHANGED <<core, call, ret, trace>>

\* main(): root.mainloop()
mainloop ==
    /\ ~gui.mainloop
    /\ gui' = [gui EXCEPT !.mainloop = TRUE]
    /\ UNCHANGED <<core, call, ret, trace>>

\* The main loop runs the callback at the head of its queue: update, enable,
\* add or re_enable.
run_callback ==
    /\ gui.mainloop
    /\ gui.after # <<>>
    /\ LET cb == Head(gui.after)
       IN  gui' = [gui EXCEPT
                     !.after = Tail(@),
                     !.status = IF cb.fn = "update" THEN cb.arg ELSE @,
                     !.entry = IF cb.fn \in {"enable", "re_enable"} THEN "normal" ELSE @,
                     !.send = IF cb.fn \in {"enable", "re_enable"} THEN "normal" ELSE @,
                     !.others = IF cb.fn = "enable" THEN "normal" ELSE @,
                     !.label = IF cb.fn = "re_enable" THEN "Analyze" ELSE @,
                     !.session = IF cb.fn = "add" THEN Append(@, cb.arg) ELSE @,
                     !.recorded = IF cb.fn = "add" /\ cb.arg = "user"
                                  THEN @ \cup {cb.req} ELSE @]
    /\ UNCHANGED <<core, call, ret, trace>>

\* The user edits the symptom entry, which takes input only while enabled.
user_types(text) ==
    /\ gui.mainloop
    /\ gui.entry = "normal"
    /\ gui' = [gui EXCEPT !.text = text]
    /\ UNCHANGED <<core, call, ret, trace>>

\* Variant of analyze_symptoms: the entry keeps the text that was submitted.
analyze_symptoms_KeepsText(by) ==
    /\ gui.mainloop
    /\ by = "button" => gui.send = "normal"
    /\ gui' = IF ~gui.is_initialized
              THEN [gui EXCEPT !.last = "warning: initializing"]
              ELSE IF Strip(gui.text) = <<>> \/ Strip(gui.text) = placeholder_text
              THEN [gui EXCEPT !.last = "warning: no symptoms"]
              ELSE IF gui.analyses >= MaxAnalyses
              THEN gui
              ELSE [gui EXCEPT !.last = "started",
                               !.analyses = @ + 1,
                               !.after = Append(@, [fn |-> "add", arg |-> "user",
                                                    req |-> gui.analyses + 1]),
                               !.entry = "disabled",
                               !.send = "disabled",
                               !.label = "Analyzing...",
                               !.workers = Append(@, [pc |-> "diagnose",
                                                      text |-> Strip(gui.text),
                                                      req |-> gui.analyses + 1])]
    /\ UNCHANGED <<core, call, ret, trace>>

\* analyze_symptoms(), run by the main loop on a click of the Analyze
\* button, which takes clicks only while enabled, or on the Return key in
\* the entry.
analyze_symptoms(by) ==
    /\ gui.mainloop
    /\ by = "button" => gui.send = "normal"
    /\ gui' = IF ~gui.is_initialized
              THEN [gui EXCEPT !.last = "warning: initializing"]
              ELSE IF Strip(gui.text) = <<>> \/ Strip(gui.text) = placeholder_text
              THEN [gui EXCEPT !.last = "warning: no symptoms"]
              ELSE IF gui.analyses >= MaxAnalyses
              THEN gui
              ELSE [gui EXCEPT !.last = "started",
                               !.analyses = @ + 1,
                               !.text = placeholder_text,
                               !.after = Append(@, [fn |-> "add", arg |-> "user",
                                                    req |-> gui.analyses + 1]),
                               !.entry = "disabled",
                               !.send = "disabled",
                               !.label = "Analyzing...",
                               !.workers = Append(@, [pc |-> "diagnose",
                                                      text |-> Strip(gui.text),
                                                      req |-> gui.analyses + 1])]
    /\ UNCHANGED <<core, call, ret, trace>>

\* analyze_thread: the symptoms are parsed and handed to diagnose.
analyze_diagnose(w) ==
    /\ gui.workers[w].pc = "diagnose"
    /\ \E symptoms \in {ParseSymptoms(gui.workers[w].text)} : diagnose(symptoms)
    /\ gui' = [gui EXCEPT !.workers[w].pc = "display", !.diagnosed = TRUE]

\* analyze_thread: the result is handed to add_message: the error, followed
\* by two more messages when there are invalid symptoms, or the report.
analyze_display(w) ==
    /\ gui.workers[w].pc = "display"
    /\ call.op = "diagnose"
    /\ LET ai == [fn |-> "add", arg |-> "ai", req |-> gui.workers[w].req]
           messages == IF "error" \in DOMAIN ret
                       THEN IF "invalid_symptoms" \in DOMAIN ret
                               /\ ret.invalid_symptoms # <<>>
                            THEN <<ai, ai, ai>>
                            ELSE <<ai>>
                       ELSE <<ai>>
       IN  gui' = [gui EXCEPT !.after = @ \o messages, !.workers[w].pc = "finally"]
    /\ take_result

\* analyze_thread: an exception raised in the try block, before or after
\* diagnose has returned, takes the thread to the except clause, which hands
\* a System message to add_message.
analyze_raises(w) ==
    /\ gui.workers[w].pc \in {"diagnose", "display"}
    /\ gui' = [gui EXCEPT !.after = Append(@, [fn |-> "add", arg |-> "system",
                                                req |-> gui.workers[w].req]),
                          !.workers[w].pc = "finally",
                          !.last = "analysis failed"]
    /\ IF gui.workers[w].pc = "display"
       THEN call.op = "diagnose" /\ take_result
       ELSE UNCHANGED <<core, call, ret, trace>>

\* Variant of analyze_finally: the thread ends without scheduling re_enable.
analyze_finally_NoReEnable(w) ==
    /\ gui.workers[w].pc = "finally"
    /\ gui' = [gui EXCEPT !.workers = SubSeq(@, 1, w - 1) \o SubSeq(@, w + 1, Len(@))]
    /\ UNCHANGED <<core, call, ret, trace>>

\* analyze_thread, finally clause: root.after(0, re_enable); the thread ends.
analyze_finally(w) ==
    /\ gui.workers[w].pc = "finally"
    /\ gui' = [gui EXCEPT !.after = Append(@, [fn |-> "re_enable", arg |-> ""]),
                          !.workers = SubSeq(@, 1, w - 1) \o SubSeq(@, w + 1, Len(@))]
    /\ UNCHANGED <<core, call, ret, trace>>

NextGui ==
    \/ init_after /\ UNCHANGED <<cli, web>>
    \/ \E train \in TrainFiles, treat \in TreatFiles :
          init_load_data(train, treat) /\ UNCHANGED <<cli, web>>
    \/ init_after_load_data /\ UNCHANGED <<cli, web>>
    \/ init_train_model /\ UNCHANGED <<cli, web>>
    \/ init_after_train_model /\ UNCHANGED <<cli, web>>
    \/ init_set_initialized /\ UNCHANGED <<cli, web>>
    \/ init_showerror /\ UNCHANGED <<cli, web>>
    \/ mainloop /\ UNCHANGED <<cli, web>>
    \/ run_callback /\ UNCHANGED <<cli, web>>
    \/ \E text \in GuiTexts : user_types(text) /\ UNCHANGED <<cli, web>>
    \/ \E by \in {"button", "return"} : analyze_symptoms(by) /\ UNCHANGED <<cli, web>>
    \/ \E w \in 1..Len(gui.workers) : analyze_diagnose(w) /\ UNCHANGED <<cli, web>>
    \/ \E w \in 1..Len(gui.workers) : analyze_display(w) /\ UNCHANGED <<cli, web>>
    \/ \E w \in 1..Len(gui.workers) : analyze_raises(w) /\ UNCHANGED <<cli, web>>
    \/ \E w \in 1..Len(gui.workers) : analyze_finally(w) /\ UNCHANGED <<cli, web>>

\* The program medical_gui.py: the main thread, the initialization thread
\* and the analysis threads.
SpecGui == Init /\ [][NextGui]_vars

\* An analysis thread calls diagnose.
analyze_thread_calls ==
    \E w \in 1..Len(gui.workers) : analyze_diagnose(w) /\ UNCHANGED <<cli, web>>

\* An analysis thread can call diagnose: the enabling condition of
\* analyze_thread_calls.
analyze_thread_waits ==
    call = Idle /\ \E w \in 1..Len(gui.workers) : gui.workers[w].pc = "diagnose"

\* A later step of an analysis thread.
analyze_thread_goes_on ==
    \E w \in 1..Len(gui.workers) :
        (analyze_display(w) \/ analyze_finally(w)) /\ UNCHANGED <<cli, web>>

\* The program medical_gui.py with its scheduling: a thread that can take a
\* step takes it, and the main loop runs the callbacks in its queue. The
\* weak fairness of the call of diagnose is written out, with its enabling
\* condition as a state predicate.
SpecGuiFair ==
    /\ SpecGui
    /\ []<>(~analyze_thread_waits) \/ []<><<analyze_thread_calls>>_vars
    /\ WF_vars(analyze_thread_goes_on)
    /\ WF_vars(run_callback /\ UNCHANGED <<cli, web>>)

(* ------------------------------------------------------ the web front-end *)

\* What the user may leave in the symptom input of the page.
WebTexts == GuiTexts

\* The length the conversation history is let grow to.
MaxHistory == 4

\* initialize_chatbot(): chatbot.load_data()
web_load_data(train, treat) ==
    /\ web.pc = "initialize"
    /\ load_data(train, treat)
    /\ web' = [web EXCEPT !.pc = "load_data"]

\* initialize_chatbot(): `if not chatbot.load_data(): return None`; with
\* None for a chatbot the script reports the failure and stops.
web_after_load_data ==
    /\ web.pc = "load_data"
    /\ web' = [web EXCEPT !.pc = IF ret.value THEN "train" ELSE "stopped"]
    /\ take_result

\* initialize_chatbot(): chatbot.train_model()
web_train_model ==
    /\ web.pc = "train"
    /\ train_model
    /\ web' = [web EXCEPT !.pc = "train_model"]

\* initialize_chatbot(): `if not chatbot.train_model(): return None`; with
\* a chatbot the script sets is_initialized and goes on to the page.
web_after_train_model ==
    /\ web.pc = "train_model"
    /\ web' = [web EXCEPT !.pc = IF ret.value THEN "page" ELSE "stopped",
                          !.is_initialized = ret.value]
    /\ take_result

\* What the run of the script shows for the result of diagnose.
WebResponse(diagnosis) ==
    IF "error" \in DOMAIN diagnosis
    THEN IF "invalid_symptoms" \in DOMAIN diagnosis /\ diagnosis.invalid_symptoms # <<>>
         THEN "error and invalid symptoms"
         ELSE "error"
    ELSE "report"

\* Variant of web_analyze: the AI message is appended for a diagnosis only.
web_analyze_NoReplyOnError(symptom_input) ==
    LET diagnosis == Diagnose(ParseSymptoms(symptom_input)).ret
    IN  /\ web.pc = "page"
        /\ web' = IF symptom_input = <<>>
                  THEN [web EXCEPT !.input = symptom_input, !.last = "ignored"]
                  ELSE IF ~web.is_initialized
                  THEN [web EXCEPT !.input = symptom_input, !.last = "warning"]
                  ELSE IF Len(web.conversation_history) + 2 > MaxHistory
                  THEN web
                  ELSE [web EXCEPT !.input = symptom_input,
                                   !.last = WebResponse(diagnosis),
                                   !.conversation_history =
                                       IF "error" \in DOMAIN diagnosis
                                       THEN Append(@, "user")
                                       ELSE @ \o <<"user", "ai">>]
        /\ UNCHANGED <<core, call, ret, trace>>

\* The run of the script after a click of Analyze: with a non-empty input
\* and an initialized chatbot it appends the user message, calls diagnose
\* on the parsed symptoms and appends the AI message.
web_analyze(symptom_input) ==
    LET diagnosis == Diagnose(ParseSymptoms(symptom_input)).ret
    IN  /\ web.pc = "page"
        /\ web' = IF symptom_input = <<>>
                  THEN [web EXCEPT !.input = symptom_input, !.last = "ignored"]
                  ELSE IF ~web.is_initialized
                  THEN [web EXCEPT !.input = symptom_input, !.last = "warning"]
                  ELSE IF Len(web.conversation_history) + 2 > MaxHistory
                  THEN web
                  ELSE [web EXCEPT !.input = symptom_input,
                                   !.last = WebResponse(diagnosis),
                                   !.conversation_history = @ \o <<"user", "ai">>]
        /\ UNCHANGED <<core, call, ret, trace>>

\* The run of the script after a click of Clear Chat.
web_clear_chat ==
    /\ web.pc = "page"
    /\ web' = [web EXCEPT !.conversation_history = <<>>, !.last = "cleared"]
    /\ UNCHANGED <<core, call, ret, trace>>

NextWeb ==
    \/ \E train \in TrainFiles, treat \in TreatFiles :
          web_load_data(train, treat) /\ UNCHANGED <<cli, gui>>
    \/ web_after_load_data /\ UNCHANGED <<cli, gui>>
    \/ web_train_model /\ UNCHANGED <<cli, gui>>
    \/ web_after_train_model /\ UNCHANGED <<cli, gui>>
    \/ \E symptom_input \in WebTexts : web_analyze(symptom_input) /\ UNCHANGED <<cli, gui>>
    \/ web_clear_chat /\ UNCHANGED <<cli, gui>>

\* The program streamlit_app.py: one session of the page.
SpecWeb == Init /\ [][NextWeb]_vars

(* ------------------------------------------------------------ properties *)

Returned(op) == call.op = op

HasKey(r, k) == k \in DOMAIN r

\* A diagnose call returned a successful diagnosis.
Success == Returned("diagnose") /\ HasKey(ret, "top_predictions")

\* The token equals the vocabulary entry when case is ignored.
CaseEq(token, entry) == Lower(token) = Lower(entry)

HasCaseEq(token) == \E j \in 1..Len(all_symptoms) : CaseEq(token, all_symptoms[j])

\* The aliases of the token's alias-table entry that are in the vocabulary.
AliasTargets(token) ==
    IF Clean(token) \in DOMAIN symptom_mappings
    THEN {symptom_mappings[Clean(token)][k] : k \in 1..Len(symptom_mappings[Clean(token)])}
         \cap {all_symptoms[j] : j \in 1..Len(all_symptoms)}
    ELSE {}

\* The token fails the exact, the alias and the fuzzy strategy.
FailsAll(token) ==
    /\ ~InList(Clean(token), all_symptoms)
    /\ AliasTargets(token) = {}
    /\ \A j \in 1..Len(all_symptoms) : ~FuzzyTest(Clean(token), all_symptoms[j])

RECURSIVE SumProbs(_)
SumProbs(pairs) == IF pairs = <<>> THEN 0 ELSE Head(pairs)[2] + SumProbs(Tail(pairs))

\* C1: every element of the `valid` list validate_symptoms returns is a
\* member of the vocabulary all_symptoms, whatever the tokens and the
\* vocabulary.
C1_ValidInVocabulary ==
    Returned("validate_symptoms") =>
        \A i \in 1..Len(ret.valid) : InList(ret.valid[i], all_symptoms)

\* C1 witness: a call that resolved two tokens, one of them through the
\* fuzzy fallback (its cleaned form is neither an entry nor an alias key).
C1_Witness ==
    /\ Returned("validate_symptoms")
    /\ Len(ret.valid) = 2
    /\ \E i \in 1..Len(call.arg) :
          /\ ~InList(Clean(call.arg[i]), all_symptoms)
          /\ Clean(call.arg[i]) \notin DOMAIN symptom_mappings
          /\ ~FailsAll(call.arg[i])

\* C2: a token that equals a vocabulary entry when case is ignored puts that
\* entry, unchanged, into `valid` and nothing into `invalid`; when every
\* token of the list is such a token, `valid` is the list of those entries
\* in input order and `invalid` is empty.
C2_ExactMatchKeepsEntry ==
    Returned("validate_symptoms") =>
        /\ \A i \in 1..Len(call.arg) : \A j \in 1..Len(all_symptoms) :
              CaseEq(call.arg[i], all_symptoms[j]) =>
                  /\ InList(all_symptoms[j], ret.valid)
                  /\ ~InList(call.arg[i], ret.invalid)
        /\ (\A i \in 1..Len(call.arg) : HasCaseEq(call.arg[i])) =>
              /\ ret.invalid = <<>>
              /\ Len(ret.valid) = Len(call.arg)
              /\ \A i \in 1..Len(call.arg) :
                    /\ InList(ret.valid[i], all_symptoms)
                    /\ CaseEq(call.arg[i], ret.valid[i])

\* C2 witness: a token written with another case than the entry it equals.
C2_Witness ==
    /\ Returned("validate_symptoms")
    /\ Len(call.arg) = 1
    /\ HasCaseEq(call.arg[1])
    /\ ~InList(call.arg[1], all_symptoms)
    /\ ret.invalid = <<>>

\* C3 as stated: a token that has an alias-table entry with at least one
\* alias in the vocabulary puts one of those aliases into `valid`.
C3_AliasAlwaysWins ==
    Returned("validate_symptoms") =>
        \A i \in 1..Len(call.arg) :
            AliasTargets(call.arg[i]) # {} =>
                \E t \in AliasTargets(call.arg[i]) : InList(t, ret.valid)

\* C3 amended: a token whose cleaned form is not itself a vocabulary entry
\* and that has an alias-table entry with at least one alias in the
\* vocabulary puts one of those aliases into `valid`, and the token itself
\* goes neither into `valid` nor into `invalid`; when nothing of the list is
\* invalid, the alias stands at the token's position.
C3_AliasUnlessExact ==
    Returned("validate_symptoms") =>
        \A i \in 1..Len(call.arg) :
            (AliasTargets(call.arg[i]) # {} /\ ~InList(Clean(call.arg[i]), all_symptoms)) =>
                /\ \E t \in AliasTargets(call.arg[i]) : InList(t, ret.valid)
                /\ ~InList(call.arg[i], ret.valid)
                /\ ~InList(Clean(call.arg[i]), ret.valid)
                /\ ~InList(call.arg[i], ret.invalid)
                /\ ret.invalid = <<>> => ret.valid[i] \in AliasTargets(call.arg[i])

\* C3 witness: an aliased token, not an entry itself, was resolved.
C3_Witness ==
    /\ Returned("validate_symptoms")
    /\ \E i \in 1..Len(call.arg) :
          /\ AliasTargets(call.arg[i]) # {}
          /\ ~InList(Clean(call.arg[i]), all_symptoms)
          /\ ret.invalid = <<>>
          /\ ret.valid[i] # Clean(call.arg[i])

\* C4 as stated: on a trained chatbot, an input whose every token fails all
\* three strategies gets an error result with a non-empty invalid_symptoms
\* list and no predictions.
C4_AllFailGivesInvalidList ==
    (Returned("diagnose") /\ is_trained
        /\ \A i \in 1..Len(call.arg) : FailsAll(call.arg[i])) =>
        /\ HasKey(ret, "error")
        /\ HasKey(ret, "invalid_symptoms")
        /\ ret.invalid_symptoms # <<>>
        /\ ~HasKey(ret, "top_predictions")

\* C4 amended: the same for a non-empty input; the invalid_symptoms list is
\* then the input itself.
C4_NonEmptyAllFailGivesInvalidList ==
    (Returned("diagnose") /\ is_trained /\ call.arg # <<>>
        /\ \A i \in 1..Len(call.arg) : FailsAll(call.arg[i])) =>
        /\ HasKey(ret, "error")
        /\ HasKey(ret, "invalid_symptoms")
        /\ ret.invalid_symptoms # <<>>
        /\ ret.invalid_symptoms = call.arg
        /\ ~HasKey(ret, "top_predictions")

\* C4 witness: a trained chatbot was asked about two tokens that both fail.
C4_Witness ==
    /\ Returned("diagnose") /\ is_trained
    /\ Len(call.arg) = 2
    /\ \A i \in 1..Len(call.arg) : FailsAll(call.arg[i])

\* C5: on a trained chatbot, diagnose of an empty input, or of an input none
\* of whose tokens resolves, returns the "No valid symptoms provided" error
\* and predict_proba is not called for the request.
C5_NoValidNoPrediction ==
    (Returned("diagnose") /\ is_trained
        /\ (call.arg = <<>> \/ \A i \in 1..Len(call.arg) : FailsAll(call.arg[i]))) =>
        /\ HasKey(ret, "error")
        /\ ret.error = "No valid symptoms provided"
        /\ trace.last.predict_calls = 0

\* C5 witness: a trained chatbot was asked about the empty list.
C5_Witness ==
    /\ Returned("diagnose") /\ is_trained /\ call.arg = <<>>
    /\ trace.last.validated

\* C6: a diagnose result holds the key `error` exactly when it holds neither
\* `top_predictions` nor `treatment`.
C6_ErrorXorDiagnosis ==
    Returned("diagnose") =>
        /\ HasKey(ret, "error") <=> ~HasKey(ret, "top_predictions")
        /\ HasKey(ret, "error") <=> ~HasKey(ret, "treatment")

\* C6 witness: a successful diagnosis was returned.
C6_Witness == Success /\ HasKey(ret, "treatment") /\ Len(ret.top_predictions) = TopN

\* C7: as long as train_model has not returned True, diagnose returns
\* "Model not trained" without matching symptoms or calling the model.
C7_UntrainedRefuses ==
    (Returned("diagnose") /\ ~trace.train_ok) =>
        /\ ret = [error |-> "Model not trained"]
        /\ ~trace.last.validated
        /\ trace.last.predict_calls = 0

\* C7 witness: diagnose on a chatbot whose data is loaded, for which
\* train_model ran and failed, with a token the vocabulary holds.
C7_Witness ==
    /\ Returned("diagnose") /\ ~trace.train_ok
    /\ model.state = "unfitted"
    /\ \E i \in 1..Len(call.arg) : InList(Clean(call.arg[i]), all_symptoms)

\* C8: once is_trained is true no exception leaves diagnose, and an
\* exception raised during inference is returned as a "Prediction error".
C8_InferenceErrorsCaught ==
    (Returned("diagnose") /\ is_trained) =>
        /\ ~HasKey(ret, "raised")
        /\ trace.last.raised # "none" => ret = [error |-> "Prediction error"]

\* C8 witness: the treatment lookup raised inside diagnose.
C8_Witness == Returned("diagnose") /\ is_trained /\ trace.last.raised = "lower"

\* C9: the top_predictions of a successful diagnosis are in non-increasing
\* order of probability.
C9_SortedDescending ==
    Success =>
        \A i \in 1..(Len(ret.top_predictions) - 1) :
            ret.top_predictions[i][2] >= ret.top_predictions[i + 1][2]

\* C9 witness: a ranking whose first two probabilities differ.
C9_Witness ==
    /\ Success
    /\ Len(ret.top_predictions) >= 2
    /\ ret.top_predictions[1][2] > ret.top_predictions[2][2]
    /\ ret.top_predictions[2][2] > 0

\* C10 as stated: the probabilities in top_predictions sum to 1 (NTrees
\* votes out of NTrees) for any number of classes.
C10_TopSumsToOne == Success => SumProbs(ret.top_predictions) = NTrees

\* C10 amended: the probabilities in top_predictions sum to at most 1, and
\* to 1 when the model has at most three classes.
C10_TopSumsToOneUpToThree ==
    Success =>
        /\ SumProbs(ret.top_predictions) <= NTrees
        /\ Len(model.classes) <= TopN => SumProbs(ret.top_predictions) = NTrees

\* C10 witness: a model of at most three classes gave two of them a
\* non-zero probability.
C10_Witness ==
    /\ Success
    /\ Len(model.classes) <= TopN
    /\ Len(ret.top_predictions) >= 2
    /\ ret.top_predictions[2][2] > 0

\* The probabilities the model gives every class for the symptoms of a
\* successful result, in class order.
AllProbs == predict_proba(model, InputVector(ret.valid_symptoms))

\* C11: top_predictions holds exactly min(3, number of classes) pairs
\* (class, probability of that class) of distinct classes, no class left out
\* has a higher probability than one that is in, and `confidence` is the
\* probability of the first entry.
C11_TopThreeOfAllClasses ==
    Success =>
        LET tp == ret.top_predictions
            in_top == {tp[i][1] : i \in 1..Len(tp)}
        IN  /\ Len(tp) = Min(3, Len(model.classes))
            /\ \A i, j \in 1..Len(tp) : i # j => tp[i][1] # tp[j][1]
            /\ \A i \in 1..Len(tp) : \E c \in 1..Len(model.classes) :
                  tp[i] = <<model.classes[c], AllProbs[c]>>
            /\ \A c \in 1..Len(model.classes) :
                  model.classes[c] \notin in_top =>
                      \A i \in 1..Len(tp) : AllProbs[c] <= tp[i][2]
            /\ ret.confidence = tp[1][2]

\* C11 witness: a model of four classes, the last of them the most probable.
C11_Witness ==
    /\ Success
    /\ Len(model.classes) = 4
    /\ \A c \in 1..3 : AllProbs[c] < AllProbs[4]

\* The tokens of the call that do not fail, and those that do, in order.
Resolved == SelectSeq(call.arg, LAMBDA t : ~FailsAll(t))

Failed == SelectSeq(call.arg, LAMBDA t : FailsAll(t))

\* The vocabulary entry e is one the token can resolve to.
ResolvesTo(token, e) ==
    /\ InList(e, all_symptoms)
    /\ \/ e = Clean(token)
       \/ e \in AliasTargets(token)
       \/ FuzzyTest(Clean(token), e)

\* C13: validate_symptoms partitions its input: `invalid` is the list of the
\* tokens that fail all three strategies, as given and in input order,
\* `valid` holds one entry for each other token, in input order, and the
\* lengths add up; [fever, headache] with high_fever and headache in the
\* vocabulary gives valid = [high_fever, headache], invalid = [].
C13_Partition ==
    Returned("validate_symptoms") =>
        /\ Len(ret.valid) + Len(ret.invalid) = Len(call.arg)
        /\ ret.invalid = Failed
        /\ Len(ret.valid) = Len(Resolved)
        /\ \A k \in 1..Len(Resolved) : ResolvesTo(Resolved[k], ret.valid[k])
        /\ (/\ Len(call.arg) = 2
            /\ Clean(call.arg[1]) = s_fever
            /\ Clean(call.arg[2]) = s_headache
            /\ InList(s_high_fever, all_symptoms)
            /\ InList(s_headache, all_symptoms)
            /\ ~InList(s_fever, all_symptoms))
           => ret = [valid |-> <<s_high_fever, s_headache>>, invalid |-> <<>>]

\* C13 witness: a list of one token that fails, written with an upper-case
\* letter, followed by one that resolves.
C13_Witness ==
    /\ Returned("validate_symptoms")
    /\ Len(call.arg) = 2
    /\ FailsAll(call.arg[1]) /\ call.arg[1] # Clean(call.arg[1])
    /\ ~FailsAll(call.arg[2])
    /\ Len(ret.valid) = 1 /\ Len(ret.invalid) = 1

\* The first alias, in the order of the alias list, that is in the vocabulary.
FirstListedAlias(token) ==
    LET aliases == symptom_mappings[Clean(token)]
        k == CHOOSE k \in 1..Len(aliases) :
                /\ InList(aliases[k], all_symptoms)
                /\ \A j \in 1..(k - 1) : ~InList(aliases[j], all_symptoms)
    IN  aliases[k]

\* C20: a token with no exact match and an alias-table entry resolves to the
\* first alias, in alias-list order, that is in the vocabulary, whatever
\* entries the fuzzy test would accept; only when none of its aliases is in
\* the vocabulary does it resolve through the fuzzy test or fail.
C20_FirstAliasInListOrder ==
    (Returned("validate_symptoms") /\ ret.invalid = <<>>) =>
        \A i \in 1..Len(call.arg) :
            (/\ ~InList(Clean(call.arg[i]), all_symptoms)
             /\ Clean(call.arg[i]) \in DOMAIN symptom_mappings) =>
                IF AliasTargets(call.arg[i]) # {}
                THEN ret.valid[i] = FirstListedAlias(call.arg[i])
                ELSE FuzzyTest(Clean(call.arg[i]), ret.valid[i])

\* C20 witness: fever resolved to high_fever although mild_fever comes
\* first in the vocabulary and passes the fuzzy test.
C20_Witness ==
    /\ Returned("validate_symptoms")
    /\ call.arg = <<s_fever>>
    /\ ret.valid = <<s_high_fever>>
    /\ all_symptoms[1] = s_mild_fever
    /\ FuzzyTest(s_fever, s_mild_fever)

\* C20 witness of the other cases: fever resolved to mild_fever in a
\* vocabulary without high_fever.
C20_MildFeverReached ==
    /\ Returned("validate_symptoms")
    /\ call.arg = <<s_fever>>
    /\ ret.valid = <<s_mild_fever>>
    /\ ~InList(s_high_fever, all_symptoms)

\* C12: once train_model has returned True on the table load_data loaded,
\* no label with fewer than 2 rows in the training file is in
\* disease_classes or in the classes of the model, and none is in a
\* prediction.
C12_FewRowLabelsNeverTrained ==
    trace.fresh =>
        \A r \in 1..Len(trace.table) :
            trace.table[r].rows < 2 =>
                /\ ~InList(trace.table[r].label, disease_classes.items)
                /\ ~InList(trace.table[r].label, model.classes)
                /\ Success =>
                      \A i \in 1..Len(ret.top_predictions) :
                          ret.top_predictions[i][1] # trace.table[r].label

\* C12 witness: a prediction of a model trained on a file that has a label
\* with one row.
C12_Witness ==
    /\ trace.fresh
    /\ \E r \in 1..Len(trace.table) : trace.table[r].rows = 1
    /\ Success

\* C14: in a successful result `treatment` is the treatment-map entry for
\* the lower-cased, trimmed name of the top-ranked disease when the map has
\* one, and the generic advisory otherwise.
C14_TreatmentByNormalizedName ==
    Success =>
        LET key == Strip(Lower(ret.top_predictions[1][1]))
        IN  IF key \in DOMAIN treatment_dict
            THEN ret.treatment = [text |-> treatment_dict[key], default |-> ""]
            ELSE ret.treatment = [text |-> <<>>, default |-> DefaultTreatment]

\* C14: the case that separates the lookup from the claim: the top-ranked
\* label ends with a blank, the map has an entry for its trimmed name, and
\* the result carries the generic advisory.
C14_UntrimmedLabelMissesEntry ==
    /\ Success
    /\ ret.top_predictions[1][1] = l_flu_sp
    /\ Strip(l_flu_sp) \in DOMAIN treatment_dict
    /\ ret.treatment.default = DefaultTreatment

\* The operations that serve one query.
PerQueryOps ==
    {"diagnose", "validate_symptoms", "get_symptom_suggestions", "format_diagnosis_report"}

\* C15: diagnose, validate_symptoms, get_symptom_suggestions and
\* format_diagnosis_report leave all_symptoms, treatment_dict, the model,
\* disease_classes and is_trained as they were, whether they succeed or
\* return an error.
C15_PerQueryOpsReadOnly ==
    [][(call = Idle /\ call'.op \in PerQueryOps) =>
          /\ all_symptoms' = all_symptoms
          /\ treatment_dict' = treatment_dict
          /\ model' = model
          /\ disease_classes' = disease_classes
          /\ is_trained' = is_trained]_vars

\* C15 witness: a successful diagnose has returned on a trained object
\* whose classes are still in the order training gave them.
C15_Witness ==
    /\ Success
    /\ Len(disease_classes.items) = 4
    /\ disease_classes.items = model.classes
    /\ ret.top_predictions[1][1] # disease_classes.items[1]

\* C16: on a trained object, a diagnose call with the token list of an
\* earlier call returns what that call returned, whatever diagnose calls
\* were made in between.
C16_SameInputSameResult ==
    (Returned("diagnose") /\ trace.memo.set /\ call.arg = trace.memo.arg) =>
        ret = trace.memo.ret

\* C16 witness: a successful diagnose call that repeats a remembered one
\* after a call with another list.
C16_Witness ==
    /\ Success
    /\ trace.memo.set
    /\ trace.memo.between
    /\ call.arg = trace.memo.arg
    /\ Len(ret.invalid_symptoms) = 1

\* C17: in main, train_model is called only after load_data has returned
\* True, interactive_chat and every diagnose start only after train_model
\* has returned True, and after a failed load_data or train_model no later
\* step runs and no step is run again.
C17_MainInOrderAbortsOnFailure ==
    /\ cli.loads <= 1 /\ cli.trains <= 1
    /\ cli.trains > 0 => cli.load_ret = "True"
    /\ (cli.chat \/ cli.diagnosed \/ cli.pc \in {"chat", "prompt", "diagnose", "continue"})
          => (cli.train_ret = "True" /\ trace.train_ok /\ is_trained)
    /\ cli.load_ret = "False" =>
          (cli.pc = "returned" /\ cli.trains = 0 /\ ~cli.chat /\ ~cli.diagnosed)
    /\ cli.train_ret = "False" =>
          (cli.pc = "returned" /\ ~cli.chat /\ ~cli.diagnosed)

\* C17 witness: main has returned after load_data succeeded and train_model
\* failed.
C17_Witness ==
    /\ cli.pc = "returned"
    /\ cli.load_ret = "True"
    /\ cli.train_ret = "False"

\* C17, the other outcomes: the session has run a diagnose, and main has
\* returned after a failed load_data.
C17_SessionReached == cli.pc = "continue" /\ cli.diagnosed /\ cli.shown = "report"

C17_LoadFailureReached == cli.pc = "returned" /\ cli.load_ret = "False"

\* C18: no worker thread of the GUI touches a widget or opens a dialog
\* itself; what it shows goes through root.after.
C18_WorkersOnlySchedule == gui.direct = {}

\* The callbacks in the queue of the main loop that enable input controls.
PendingEnable ==
    \E i \in 1..Len(gui.after) : gui.after[i].fn \in {"enable", "re_enable"}

\* C19: in the GUI, is_initialized is true only after load_data and
\* train_model have both returned True; while it is false analyze_symptoms
\* has done nothing but warn, no analysis was started and diagnose was not
\* called; and after a failed initialization it is false and the input
\* controls are disabled, with no callback pending that enables them.
C19_NoDiagnoseBeforeTrained ==
    /\ gui.is_initialized =>
          /\ gui.load_ret = "True" /\ gui.train_ret = "True"
          /\ is_trained /\ trace.train_ok
    /\ gui.diagnosed => (gui.train_ret = "True" /\ trace.train_ok)
    /\ ~gui.is_initialized =>
          /\ gui.last \in {"none", "warning: initializing"}
          /\ gui.workers = <<>> /\ gui.analyses = 0 /\ ~gui.diagnosed
          /\ gui.text = placeholder_text
          /\ \A i \in 1..Len(gui.after) : gui.after[i].fn \in {"update"}
          /\ gui.session = <<>>
          /\ gui.entry = "disabled" /\ gui.send = "disabled" /\ gui.others = "disabled"
    /\ gui.failed =>
          /\ ~gui.is_initialized
          /\ gui.entry = "disabled" /\ gui.send = "disabled" /\ gui.others = "disabled"
          /\ ~PendingEnable

\* C19 witness: initialization has failed at train_model, and the user has
\* pressed Return since and got the warning.
C19_Witness ==
    /\ gui.failed
    /\ gui.train_ret = "False"
    /\ gui.init_pc = "done"
    /\ gui.status = "error: train"
    /\ gui.last = "warning: initializing"

\* C19, the other outcome: an analysis has called diagnose after a
\* successful initialization.
C19_AnalysisReached == gui.diagnosed /\ gui.is_initialized /\ gui.analyses = MaxAnalyses

\* The token has neither an exact match nor an alias in the vocabulary.
FuzzyOnly(token) ==
    /\ ~InList(Clean(token), all_symptoms)
    /\ AliasTargets(token) = {}

\* The vocabulary entry qualifies for the token: it is a substring of the
\* token, or contains it, or has Jaccard similarity above 0.6 with it.
Qualifies(token, e) ==
    \/ IsSubstr(e, Clean(token))
    \/ IsSubstr(Clean(token), e)
    \/ LET f == similarity(Clean(token), e) IN 10 * f[1] > 6 * f[2]

\* C21: a token with no exact and no alias match resolves to the first
\* vocabulary entry, in vocabulary order, that qualifies; no later entry is
\* chosen over an earlier qualifying one, however closely it matches.
C21_FirstQualifyingEntry ==
    (Returned("validate_symptoms") /\ ret.invalid = <<>>) =>
        \A i \in 1..Len(call.arg) :
            FuzzyOnly(call.arg[i]) =>
                \E k \in 1..Len(all_symptoms) :
                    /\ ret.valid[i] = all_symptoms[k]
                    /\ Qualifies(call.arg[i], all_symptoms[k])
                    /\ \A j \in 1..(k - 1) : ~Qualifies(call.arg[i], all_symptoms[j])

\* C21 witness: a token resolved to an entry that is a substring of it,
\* while a later entry has the same words as the token (similarity 1).
C21_Witness ==
    /\ Returned("validate_symptoms")
    /\ Len(call.arg) = 1 /\ FuzzyOnly(call.arg[1])
    /\ \E k \in 1..Len(all_symptoms) :
          /\ ret.valid = <<all_symptoms[k]>>
          /\ LET f == similarity(Clean(call.arg[1]), all_symptoms[k]) IN f[1] < f[2]
          /\ \E j \in (k + 1)..Len(all_symptoms) :
                LET f == similarity(Clean(call.arg[1]), all_symptoms[j]) IN f[1] = f[2]

\* The str with every underscore replaced by a blank.
Spaced(s) == [i \in 1..Len(s) |-> IF s[i] = "_" THEN " " ELSE s[i]]

\* The token and the entry differ only in using blanks or underscores
\* between the same words.
SameWords(token, e) ==
    /\ Clean(token) # e
    /\ Spaced(Clean(token)) = Spaced(e)
    /\ SplitWords(Spaced(e), <<>>) # {}

\* C22: the similarity of the fuzzy fallback splits on whitespace and on
\* underscore: a token and a vocabulary entry that differ only in blanks
\* versus underscores between the same words have similarity 1.
C22_SimilaritySplitsOnUnderscore ==
    Returned("validate_symptoms") =>
        \A i \in 1..Len(call.arg), k \in 1..Len(all_symptoms) :
            SameWords(call.arg[i], all_symptoms[k]) =>
                LET f == similarity(Clean(call.arg[i]), all_symptoms[k])
                IN  f[1] = f[2]

\* C22: the case that separates _similarity from the claim: 'high fever'
\* against the entry high_fever has similarity 0, and the token is reported
\* invalid.
C22_UnderscoreEntryNotMatched ==
    /\ Returned("validate_symptoms")
    /\ Len(call.arg) = 1
    /\ \E k \in 1..Len(all_symptoms) :
          /\ SameWords(call.arg[1], all_symptoms[k])
          /\ similarity(Clean(call.arg[1]), all_symptoms[k])[1] = 0
    /\ ret.invalid = call.arg

\* C23: the input vector diagnose hands to the model has one component per
\* vocabulary entry, in vocabulary order; component i is 1 when entry i
\* occurs in `valid` and 0 otherwise, however often it occurs.
C23_InputVectorIsIndicator ==
    (Returned("diagnose") /\ trace.last.predict_calls = 1) =>
        LET valid == validate_symptoms(call.arg, all_symptoms).valid
            vector == trace.last.vector
        IN  /\ Len(vector) = Len(all_symptoms)
            /\ \A i \in 1..Len(all_symptoms) :
                  /\ vector[i] \in {0, 1}
                  /\ vector[i] = 1 <=> (\E k \in 1..Len(valid) : valid[k] = all_symptoms[i])

\* C23 witness: a prediction for a `valid` list that holds the same entry
\* twice, in a vocabulary of several entries.
C23_Witness ==
    /\ Success
    /\ Len(ret.valid_symptoms) = 2
    /\ ret.valid_symptoms[1] = ret.valid_symptoms[2]
    /\ Len(all_symptoms) > 2
    /\ trace.last.vector[2] = 1

\* The line read last, trimmed and lower-cased.
LastInput == Lower(Strip(cli'.input))

\* C24: in the session loop of the CLI, the step after a diagnose, error
\* result or not, leads to the continue prompt; a step that ends the
\* session from inside the loop is the input quit, exit or bye at the
\* symptoms prompt or an answer other than y or yes at the continue prompt
\* (input() raising, at end of input or on an interrupt, leaves the loop
\* through the except clauses of main); and help, suggestions and the empty
\* line lead back to the symptoms prompt with no call of diagnose.
C24_ErrorsDoNotEndSession ==
    [][/\ (cli.pc = "diagnose" /\ cli'.pc # "diagnose") =>
             (cli'.pc = "continue" /\ call' = Idle)
       /\ (cli.pc \in {"prompt", "diagnose", "continue"} /\ cli'.pc = "returned") =>
             \/ cli.pc = "prompt" /\ LastInput \in {s_quit, s_exit, s_bye}
             \/ cli.pc = "continue" /\ LastInput \notin {s_y, s_yes}
             \/ cli'.shown = "interrupted"
       /\ (/\ cli.pc = "prompt"
           /\ cli'.shown # "interrupted"
           /\ LastInput \in {s_help, s_suggestions, <<>>}) =>
             /\ cli'.pc = "prompt"
             /\ call' = Idle /\ ret' = ret /\ trace' = trace
             /\ cli'.diagnosed = cli.diagnosed]_vars

\* C24 witness: the user is back at the symptoms prompt, having answered
\* yes at the continue prompt that followed an error result.
C24_Witness ==
    /\ cli.pc = "prompt"
    /\ cli.shown \in {"error", "error and invalid symptoms"}
    /\ Lower(Strip(cli.input)) \in {s_y, s_yes}

\* C24, the other cases: a command looped back, and an inference error
\* was shown.
C24_CommandReached == cli.pc = "prompt" /\ cli.shown = "suggestions" /\ cli.diagnosed

C24_PredictionErrorReached == cli.pc = "continue" /\ cli.shown = "error"

\* C25: whenever is_trained is true the model held is fitted and its
\* feature columns are the current vocabulary, so no diagnose reaches
\* predict_proba with an unfitted model or one fitted on other columns.
C25_TrainedModelMatchesVocabulary ==
    /\ is_trained =>
          (model.state = "fitted" /\ model.feature_names_in_ = all_symptoms)
    /\ (call.op = "diagnose" /\ trace.last.predict_calls = 1) =>
          (model.state = "fitted" /\ model.feature_names_in_ = all_symptoms)

\* C25, the cases that refute it: diagnose has called predict_proba on a
\* model that was fitted on the columns of an earlier file, and on a model
\* that was never fitted.
C25_StaleModelPredicts ==
    /\ call.op = "diagnose" /\ trace.last.predict_calls = 1
    /\ model.state = "fitted" /\ model.feature_names_in_ # all_symptoms

C25_StaleModelAnswers ==
    /\ C25_StaleModelPredicts
    /\ "top_predictions" \in DOMAIN ret

C25_UnfittedModelPredicts ==
    /\ call.op = "diagnose" /\ trace.last.predict_calls = 1
    /\ is_trained /\ model.state = "unfitted"

\* The positions of the tokens of the argument that are empty after
\* trimming.
EmptyTokens == {k \in 1..Len(call.arg) : Strip(call.arg[k]) = <<>>}

\* C26: with a non-empty vocabulary a token that is empty after trimming is
\* never reported invalid; unless the empty str is a vocabulary entry it
\* resolves to the first vocabulary entry, and diagnose on a trained object
\* with such a token goes on to the prediction.
C26_EmptyTokenResolvesToFirstEntry ==
    (all_symptoms # <<>> /\ EmptyTokens # {}) =>
        /\ Returned("validate_symptoms") =>
              /\ \A k \in EmptyTokens : ~InList(call.arg[k], ret.invalid)
              /\ ~InList(<<>>, all_symptoms) =>
                    /\ InList(all_symptoms[1], ret.valid)
                    /\ 1 \in EmptyTokens => ret.valid[1] = all_symptoms[1]
        /\ (Returned("diagnose") /\ is_trained) =>
              /\ trace.last.predict_calls = 1
              /\ HasKey(ret, "invalid_symptoms") =>
                    \A k \in EmptyTokens : ~InList(call.arg[k], ret.invalid_symptoms)
              /\ ~InList(<<>>, all_symptoms) => trace.last.vector[1] = 1

\* C26 witness: diagnose of a list holding one whitespace-only token has
\* returned a ranking computed from the first vocabulary entry alone.
C26_Witness ==
    /\ Success
    /\ Len(call.arg) = 1 /\ call.arg[1] # <<>> /\ Strip(call.arg[1]) = <<>>
    /\ ret.valid_symptoms = <<all_symptoms[1]>>
    /\ Len(all_symptoms) > 1

\* C26, the other case: validate_symptoms has resolved the empty str that
\* follows a token reported invalid.
C26_EmptyAfterInvalidReached ==
    /\ Returned("validate_symptoms")
    /\ Len(call.arg) = 2 /\ call.arg[2] = <<>>
    /\ all_symptoms # <<>>
    /\ ret = [valid |-> <<all_symptoms[1]>>, invalid |-> <<call.arg[1]>>]

\* The positions of top_predictions that hold class d.
RankOf(d) == {i \in 1..Len(ret.top_predictions) : ret.top_predictions[i][1] = d}

\* C27: ties are broken by class order: of two classes of equal
\* probability, the one that comes first in disease_classes is ranked
\* before the other in top_predictions, and is in it whenever the other is.
C27_TiesInClassOrder ==
    Success =>
        \A c, d \in 1..Len(disease_classes.items) :
            (c < d /\ AllProbs[c] = AllProbs[d] /\ RankOf(disease_classes.items[d]) # {}) =>
                /\ RankOf(disease_classes.items[c]) # {}
                /\ \A i \in RankOf(disease_classes.items[c]) :
                      \A j \in RankOf(disease_classes.items[d]) : i < j

\* C27 witness: three of four classes tie behind the most probable one, so
\* that the tie decides both the order in top_predictions and which class
\* is left out.
C27_Witness ==
    /\ Success
    /\ Len(disease_classes.items) = 4
    /\ AllProbs[2] = AllProbs[3] /\ AllProbs[3] = AllProbs[4]
    /\ AllProbs[1] > AllProbs[2]
    /\ ret.top_predictions[2][1] = disease_classes.items[2]
    /\ ret.top_predictions[3][1] = disease_classes.items[3]

\* The analyses in flight: the analysis threads that have not ended and
\* the re_enable callbacks that have not run.
InFlight ==
    Len(gui.workers)
    + Cardinality({i \in 1..Len(gui.after) : gui.after[i].fn = "re_enable"})

\* C28: at most one analysis is in flight, from the start of its thread
\* until its re_enable callback has run; all that time the Analyze button
\* and the entry are disabled and the entry holds the placeholder text, so
\* that no invocation of analyze_symptoms starts a second thread.
C28_AtMostOneWorker ==
    /\ InFlight <= 1
    /\ InFlight = 1 =>
          /\ gui.send = "disabled"
          /\ gui.entry = "disabled"
          /\ gui.text = placeholder_text

\* C28 witness: analyze_symptoms has been invoked while an analysis thread
\* was running, and has refused to start another.
C28_Witness ==
    /\ Len(gui.workers) = 1
    /\ gui.workers[1].pc = "display"
    /\ gui.last = "warning: no symptoms"

\* C28, the other case: the same while only the re_enable callback is left,
\* in the second analysis of the run.
C28_RefusedBeforeReEnable ==
    /\ gui.workers = <<>> /\ InFlight = 1
    /\ gui.analyses = 2
    /\ gui.last = "warning: no symptoms"

\* The main loop records a reply, of the AI or of the System, to request r.
RecordsReply(r) ==
    /\ gui.after # <<>>
    /\ gui'.after = Tail(gui.after)
    /\ Head(gui.after).fn = "add"
    /\ Head(gui.after).arg \in {"ai", "system"}
    /\ "req" \in DOMAIN Head(gui.after)
    /\ Head(gui.after).req = r

\* C29: every started analysis leads to the entry and the Analyze button
\* enabled again with the label of the button restored, whether diagnose
\* returned a diagnosis or an error or the thread raised; and the message
\* of the user is recorded before any reply to the same request.
C29_AnalysisEndsReEnabled ==
    /\ (gui.label = "Analyzing...") ~>
          (gui.entry = "normal" /\ gui.send = "normal" /\ gui.label = "Analyze")
    /\ [][\A r \in 1..MaxAnalyses : RecordsReply(r) => r \in gui.recorded]_vars

\* C29 witness: the controls are enabled again after an analysis whose
\* thread raised, with the message of the System recorded.
C29_Witness ==
    /\ gui.analyses = 1 /\ InFlight = 0
    /\ gui.last = "analysis failed"
    /\ gui.entry = "normal" /\ gui.send = "normal" /\ gui.label = "Analyze"
    /\ gui.recorded = {1}
    /\ gui.after = <<>>

\* C29, the other cases: the same after a diagnosis, and after an error
\* result with its three messages.
C29_AfterDiagnosisReached ==
    /\ gui.analyses >= 1 /\ InFlight = 0 /\ gui.label = "Analyze"
    /\ gui.after = <<>>
    /\ Len(gui.session) >= 2
    /\ SubSeq(gui.session, Len(gui.session) - 1, Len(gui.session)) = <<"user", "ai">>

C29_AfterErrorReached ==
    /\ gui.analyses >= 1 /\ InFlight = 0 /\ gui.label = "Analyze"
    /\ gui.after = <<>>
    /\ Len(gui.session) >= 4
    /\ SubSeq(gui.session, Len(gui.session) - 3, Len(gui.session)) = <<"user", "ai", "ai", "ai">>

\* The history is user, ai, user, ai, ...: of even length, with the user
\* messages at the odd positions and the AI messages at the even ones.
Alternates(history) ==
    /\ Len(history) % 2 = 0
    /\ \A i \in 1..Len(history) :
          history[i] = IF i % 2 = 1 THEN "user" ELSE "ai"

\* C30: in the web front-end the conversation history always has even
\* length and alternates user, ai; a run after Analyze with a non-empty
\* input appends one user message followed by one AI message, for a
\* diagnosis and for an error alike, a run after Analyze with an empty
\* input appends nothing, and a run after Clear Chat leaves it empty.
C30_HistoryAlternates ==
    /\ [](Alternates(web.conversation_history))
    /\ [][(web.pc = "page" /\ web' # web) =>
             \/ /\ web'.last = "cleared"
                /\ web'.conversation_history = <<>>
             \/ /\ web'.last = "ignored"
                /\ web'.input = <<>>
                /\ web'.conversation_history = web.conversation_history
             \/ /\ web'.last \in {"report", "error", "error and invalid symptoms"}
                /\ web'.input # <<>>
                /\ web'.conversation_history =
                       web.conversation_history \o <<"user", "ai">>]_vars

\* C30 witness: two requests have been answered, the second with an error.
C30_Witness ==
    /\ web.conversation_history = <<"user", "ai", "user", "ai">>
    /\ web.last = "error and invalid symptoms"

\* C30, the other cases: an Analyze with the empty input after an answered
\* request, a Clear Chat, a diagnosis, and an error for an input of blanks.
C30_IgnoredReached ==
    /\ web.conversation_history = <<"user", "ai">> /\ web.last = "ignored"

C30_ClearedReached == web.last = "cleared" /\ web.input # <<>>

C30_ReportReached == web.last = "report" /\ Len(web.conversation_history) = 2

C30_BlankErrorReached == web.last = "error" /\ web.input = <<" ", " ">>

====
